---- MODULE Spec2Model ----
(***************************************************************************)
(* Template generation engine of create-template-api.                      *)
(*                                                                         *)
(*   SpecResolve   resolveFeatureDependencies applied to feature lists     *)
(*                 (src/cli/generators/types.ts) and the missing-          *)
(*                 dependency filter of promptForMissingOptions.           *)
(*   Spec          one run of the generator on a target directory, entered  *)
(*                 by runCreateCommand (commands/create.ts) or by generate  *)
(*                 (base-generator.ts), one step per file written.          *)
(*   SpecContext   the validation and context building of generate         *)
(*                 (base-generator.ts lines 88-162) with the               *)
(*                 buildDependencies of both dialects.                     *)
(*   SpecCommand   the command surface: main's action handler           *)
(*                 (cli/index.ts), promptForMissingOptions and            *)
(*                 runCreateCommand up to the call of generate.            *)
(*   SpecName      formatPackageName (utils/project-name.ts) applied to    *)
(*                 project names.                                          *)
(*   SpecInstall   runCreateCommand with the optional installation and     *)
(*                 test run that follow the generation.                    *)
(*   SpecCopy      one call of copyTemplateDirectory, with its recursive   *)
(*                 calls and the writes it awaits.                         *)
(***************************************************************************)
EXTENDS Integers, Sequences, FiniteSets, TLC

VARIABLES
    pc,         \* position of the run
    selected,   \* resolveFeatureDependencies: the list it is given
    once,       \* resolveFeatureDependencies(selected)
    twice,      \* resolveFeatureDependencies(once.resolved)
    missing,    \* promptForMissingOptions: missingDependencies of the resolved list
    entry,      \* the function the run entered by: "main", "runCreateCommand" or "generate"
    argv,       \* main: the options commander parsed from the command line
    cli,        \* runCreateCommand: the options and prompt answers of the user
    answers,    \* runCreateCommand: what promptForMissingOptions returned
    shell,      \* runCreateCommand: the confirmation and the child processes, in order
    frames,     \* copyTemplateDirectory: the calls that have not returned, the innermost last
    pending,    \* copyTemplateDirectory: the file writes that have started and not completed
    awaiting,   \* copyTemplateDirectory: the innermost call is suspended at an await of a write
    options,    \* generate: the GenerateProjectOptions it is called with
    context,    \* generate: the TemplateContext it built
    thrown,     \* the Error the run ended with (NoError while there is none)
    layout,     \* the template directory of the installation
    target,     \* the target path: "absent", "directory" or "file"
    dirs,       \* the directories below the target directory
    files,      \* the files below the target directory
    walk,       \* copyTemplateDirectory: the entries still to handle
    loopIdx,    \* the position of the loop over the features
    log,        \* the filesystem writes done so far, in order
    projectName,  \* formatPackageName: the name it is given, a list of characters
    packageName   \* formatPackageName(projectName)

resolveVars == <<selected, once, twice, missing>>

commandVars == <<entry, argv, cli, answers, shell>>

generateVars == <<options, context, thrown>>

fsVars == <<layout, target, dirs, files, walk, loopIdx, log>>

nameVars == <<projectName, packageName>>

copyVars == <<frames, pending, awaiting>>

vars == <<pc, resolveVars, commandVars, generateVars, fsVars, nameVars, copyVars>>

----------------------------------------------------------------------------
(* Bounds *)

\* longest feature list handed to resolveFeatureDependencies
MaxSelected == 3

----------------------------------------------------------------------------
(* Helpers *)

Range(s) == {s[i] : i \in DOMAIN s}

SeqsUpTo(S, n) == UNION {[1..k -> S] : k \in 0..n}

\* Array.prototype.includes
includes(s, x) == x \in Range(s)

\* Array.prototype.filter, with the predicate given as the set of kept values
RECURSIVE filterIn(_, _)
filterIn(s, keep) ==
    IF s = <<>> THEN <<>>
    ELSE IF Head(s) \in keep THEN <<Head(s)>> \o filterIn(Tail(s), keep)
    ELSE filterIn(Tail(s), keep)

\* no value
None == "<none>"

\* no Error is thrown. An Error is kept as the fixed text of its message, the
\* key the message names (None when it names none) and the keys the message
\* lists as the valid ones (empty when it lists none)
NoError == [message |-> None, key |-> None, valid |-> <<>>]

\* a value no variable of an idle specification holds otherwise
Idle == "<idle>"

----------------------------------------------------------------------------
(* Catalog Store: types.ts *)

featureCatalog ==
    << [key |-> "auth",         dependencies |-> <<>>],
       [key |-> "userCrud",     dependencies |-> <<"auth">>],
       [key |-> "clientPortal", dependencies |-> <<"auth">>],
       [key |-> "adminPortal",  dependencies |-> <<"auth">>] >>

FeatureKey == {featureCatalog[i].key : i \in DOMAIN featureCatalog}

featureCatalogMap ==
    [k \in FeatureKey |-> featureCatalog[CHOOSE i \in DOMAIN featureCatalog : featureCatalog[i].key = k]]

----------------------------------------------------------------------------
(* Dependency Resolver: types.ts resolveFeatureDependencies *)

RECURSIVE visit(_, _), forEachVisit(_, _)

\* visit that adds the key before its dependencies
visitKeyFirst(st, featureKey) ==
    IF st.thrown # None THEN st
    ELSE IF includes(st.resolved, featureKey) THEN st
    ELSE IF featureKey \notin DOMAIN featureCatalogMap THEN [st EXCEPT !.thrown = featureKey]
    ELSE forEachVisit([st EXCEPT !.resolved = Append(@, featureKey)],
                      featureCatalogMap[featureKey].dependencies)

\* visit that forgets the dependencies of the key
visitNoDependencies(st, featureKey) ==
    IF st.thrown # None THEN st
    ELSE IF includes(st.resolved, featureKey) THEN st
    ELSE IF featureKey \notin DOMAIN featureCatalogMap THEN [st EXCEPT !.thrown = featureKey]
    ELSE [st EXCEPT !.resolved = Append(@, featureKey)]

\* visit without the resolved.has(featureKey) early return, adding to a list
visitNoHasCheck(st, featureKey) ==
    IF st.thrown # None THEN st
    ELSE IF featureKey \notin DOMAIN featureCatalogMap THEN [st EXCEPT !.thrown = featureKey]
    ELSE LET afterDeps == forEachVisit(st, featureCatalogMap[featureKey].dependencies)
         IN  IF afterDeps.thrown # None THEN afterDeps
             ELSE [afterDeps EXCEPT !.resolved = Append(@, featureKey)]

\* st.resolved is the Set `resolved` in insertion order, st.thrown the key of the
\* Error in flight (None when there is none): once thrown, nothing more runs.
visit(st, featureKey) ==
    IF st.thrown # None THEN st
    ELSE IF includes(st.resolved, featureKey) THEN st
    ELSE IF featureKey \notin DOMAIN featureCatalogMap THEN [st EXCEPT !.thrown = featureKey]
    ELSE LET afterDeps == forEachVisit(st, featureCatalogMap[featureKey].dependencies)
         IN  IF afterDeps.thrown # None THEN afterDeps
             ELSE [afterDeps EXCEPT !.resolved = Append(@, featureKey)]

\* a loop over the keys that ends at the first key already resolved
forEachVisitStopsAtKnown(st, keys) ==
    IF keys = <<>> THEN st
    ELSE IF includes(st.resolved, Head(keys)) THEN st
    ELSE forEachVisit(visit(st, Head(keys)), Tail(keys))

\* keys.forEach(visit)
forEachVisit(st, keys) ==
    IF keys = <<>> THEN st ELSE forEachVisit(visit(st, Head(keys)), Tail(keys))

\* a resolver that visits the whole catalog after the keys it is given
resolveFeatureDependenciesWholeCatalog(featureKeys) ==
    forEachVisit([resolved |-> <<>>, thrown |-> None],
                 featureKeys \o [i \in DOMAIN featureCatalog |-> featureCatalog[i].key])

resolveFeatureDependencies(featureKeys) ==
    forEachVisit([resolved |-> <<>>, thrown |-> None], featureKeys)

\* prompts.ts: the features of the list one of whose dependencies is not in the list
missingDependencies(resolvedFeatures) ==
    filterIn(resolvedFeatures,
             {k \in FeatureKey :
                \E d \in Range(featureCatalogMap[k].dependencies) : ~ includes(resolvedFeatures, d)})

----------------------------------------------------------------------------
(* Catalog Store: providers and front-ends, types.ts *)

Language == {"typescript", "javascript"}

PackageManager == {"npm", "pnpm", "yarn"}

dataProviderCatalog ==
    << [key |-> "postgresql", kind |-> "database"],
       [key |-> "mysql",      kind |-> "database"],
       [key |-> "sqlite",     kind |-> "database"],
       [key |-> "prisma",     kind |-> "orm"],
       [key |-> "s3",         kind |-> "storage"] >>

DataProviderKey == {dataProviderCatalog[i].key : i \in DOMAIN dataProviderCatalog}

dataProviderCatalogMap ==
    [k \in DataProviderKey |->
        dataProviderCatalog[CHOOSE i \in DOMAIN dataProviderCatalog : dataProviderCatalog[i].key = k]]

frontendFrameworkCatalog ==
    << [key |-> "react-vite", appDirectory |-> "apps/web", envFileName |-> ".env.example"],
       [key |-> "nextjs",     appDirectory |-> "apps/web", envFileName |-> ".env.local.example"] >>

frontendFrameworkCatalogMap ==
    [k \in {frontendFrameworkCatalog[i].key : i \in DOMAIN frontendFrameworkCatalog} |->
        frontendFrameworkCatalog[CHOOSE i \in DOMAIN frontendFrameworkCatalog :
                                    frontendFrameworkCatalog[i].key = k]]

\* the null a missing front-end definition is replaced by (?? null)
NullFrontend == [key |-> "none", appDirectory |-> None, envFileName |-> None]

isFrontendFrameworkKey(value) ==
    value = "none" \/ value \in DOMAIN frontendFrameworkCatalogMap

\* `none, ${frontendFrameworkCatalog.map((framework) => framework.key).join(', ')}`
FrontendKeysListed ==
    <<"none">> \o [i \in DOMAIN frontendFrameworkCatalog |-> frontendFrameworkCatalog[i].key]

\* the value of a field the caller did not set
Undefined == "<undefined>"

\* keys outside the catalogs
UnknownFeature == "doesNotExist"
UnknownProvider == "mongodb"
UnknownFrontend == "vue"

----------------------------------------------------------------------------
(* Render Context Builder: buildDependencies of the two generators *)

\* Array.prototype.map over a list of keys, with the mapped value given by f
RECURSIVE flatMap(_, _)
flatMap(s, f) == IF s = <<>> THEN <<>> ELSE f[Head(s)] \o flatMap(Tail(s), f)

\* the packages the loop over dataProviders pushes for one provider
providerDependencies ==
    [k \in DataProviderKey |->
        CASE k = "postgresql" -> <<"pg">>
          [] k = "mysql"      -> <<"mysql2">>
          [] k = "sqlite"     -> <<"better-sqlite3">>
          [] k = "prisma"     -> <<"@prisma/client">>
          [] k = "s3"         -> <<"@aws-sdk/client-s3">>]

providerDevDependenciesTS ==
    [k \in DataProviderKey |->
        CASE k = "postgresql" -> <<"@types/pg">>
          [] k = "prisma"     -> <<"prisma">>
          [] OTHER            -> <<>>]

providerDevDependenciesJS ==
    [k \in DataProviderKey |->
        CASE k = "prisma"     -> <<"prisma">>
          [] OTHER            -> <<>>]

\* the scripts added when 'prisma' is among the providers (TypeScript)
prismaScriptsTS ==
    ("prisma:generate" :> "prisma generate") @@
    ("prisma:migrate"  :> "prisma migrate dev") @@
    ("prisma:deploy"   :> "prisma migrate deploy") @@
    ("prisma:studio"   :> "prisma studio") @@
    ("db:migrate"      :> "prisma migrate deploy") @@
    ("db:seed"         :> "ts-node --project tsconfig.json --files prisma/seed.ts")

\* the scripts added when 'prisma' is among the providers (JavaScript)
prismaScriptsJS ==
    ("prisma:generate" :> "prisma generate") @@
    ("prisma:migrate"  :> "prisma migrate dev") @@
    ("prisma:studio"   :> "prisma studio")

\* buildDependencies that pushes the hashing package only
authDependenciesWithoutToken(features) ==
    IF includes(features, "auth") THEN <<"bcryptjs">> ELSE <<>>

\* the packages both generators push when features.includes('auth')
authDependencies(features) ==
    IF includes(features, "auth") THEN <<"bcryptjs", "jsonwebtoken">> ELSE <<>>

\* TypeScriptTemplateGenerator.buildDependencies
buildDependenciesTS(features, dataProviders) ==
    [ dependencies |->
          <<"cors", "dotenv", "express", "express-rate-limit", "helmet", "pino",
            "pino-http", "pino-pretty", "swagger-ui-express", "zod">>
          \o authDependencies(features)
          \o flatMap(dataProviders, providerDependencies),
      devDependencies |->
          <<"@types/cors", "@types/express", "@types/express-rate-limit", "@types/jest",
            "@types/node", "@types/supertest", "@types/swagger-ui-express", "openapi-types",
            "@typescript-eslint/eslint-plugin", "@typescript-eslint/parser", "eslint",
            "eslint-config-prettier", "jest", "prettier", "supertest", "ts-jest", "ts-node",
            "ts-node-dev", "typescript">>
          \o (IF includes(features, "auth") THEN <<"@types/jsonwebtoken">> ELSE <<>>)
          \o flatMap(dataProviders, providerDevDependenciesTS),
      scripts |->
          (IF includes(dataProviders, "prisma") THEN prismaScriptsTS ELSE <<>>) @@
          ("dev"        :> "ts-node-dev --respawn --transpile-only --ignore-watch node_modules --no-notify src/server.ts") @@
          ("build"      :> "tsc -p tsconfig.json") @@
          ("start"      :> "node dist/server.js") @@
          ("test"       :> "jest --passWithNoTests") @@
          ("test:watch" :> "jest --watch") @@
          ("lint"       :> "eslint --ext .ts src tests") @@
          ("format"     :> "prettier --write src tests") @@
          ("api"        :> "ts-node scripts/api-cli.ts") ]

\* JavaScriptTemplateGenerator.buildDependencies
buildDependenciesJS(features, dataProviders) ==
    [ dependencies |->
          <<"cors", "dotenv", "express", "express-rate-limit", "helmet", "pino",
            "pino-http", "pino-pretty", "swagger-ui-express", "zod">>
          \o authDependencies(features)
          \o flatMap(dataProviders, providerDependencies),
      devDependencies |->
          <<"eslint", "eslint-config-prettier", "jest", "nodemon", "prettier", "supertest">>
          \o flatMap(dataProviders, providerDevDependenciesJS),
      scripts |->
          (IF includes(dataProviders, "prisma") THEN prismaScriptsJS ELSE <<>>) @@
          ("dev"        :> "nodemon src/server.js") @@
          ("start"      :> "node src/server.js") @@
          ("build"      :> "echo No build step required") @@
          ("test"       :> "jest --passWithNoTests") @@
          ("test:watch" :> "jest --watch") @@
          ("lint"       :> "eslint src tests") @@
          ("format"     :> "prettier --write src tests") @@
          ("api"        :> "node scripts/api-cli.js") ]

\* the generator the registry gives for the language builds the dependencies
buildDependencies(language, features, dataProviders) ==
    IF language = "typescript" THEN buildDependenciesTS(features, dataProviders)
    ELSE buildDependenciesJS(features, dataProviders)

\* getAdditionalContext of the two generators
getAdditionalContext(opts) ==
    [ isTypeScript |-> opts.language = "typescript",
      hasAuth |-> includes(opts.features, "auth"),
      hasUserCrud |-> includes(opts.features, "userCrud"),
      hasClientPortal |-> includes(opts.features, "clientPortal"),
      hasAdminPortal |-> includes(opts.features, "adminPortal"),
      hasDatabaseProviders |->
          IF opts.language = "typescript"
          THEN \E p \in Range(opts.dataProviders) : p \in {"postgresql", "mysql", "sqlite", "prisma"}
          ELSE \E p \in Range(opts.dataProviders) : p \in {"postgresql", "mysql", "sqlite"},
      hasPrisma |-> includes(opts.dataProviders, "prisma"),
      hasObjectStorage |-> includes(opts.dataProviders, "s3") ]

\* buildFrontendScript whose pnpm branch is missing
buildFrontendScriptWithoutPnpm(packageManager, appDirectory, script) ==
    IF packageManager = "npm" THEN "npm run " \o script \o " --prefix " \o appDirectory
    ELSE "yarn --cwd " \o appDirectory \o " " \o script

\* buildFrontendScript of generate
buildFrontendScript(packageManager, appDirectory, script) ==
    IF packageManager = "npm" THEN "npm run " \o script \o " --prefix " \o appDirectory
    ELSE IF packageManager = "pnpm" THEN "pnpm --dir " \o appDirectory \o " " \o script
    ELSE "yarn --cwd " \o appDirectory \o " " \o script

\* the web:* scripts generate adds for the front-end pairing
frontendScripts(packageManager, frontendFramework) ==
    IF frontendFramework \notin DOMAIN frontendFrameworkCatalogMap THEN <<>>
    ELSE LET dir == frontendFrameworkCatalogMap[frontendFramework].appDirectory IN
         IF frontendFramework = "react-vite"
         THEN ("web:dev"     :> buildFrontendScript(packageManager, dir, "dev")) @@
              ("web:build"   :> buildFrontendScript(packageManager, dir, "build")) @@
              ("web:preview" :> buildFrontendScript(packageManager, dir, "preview"))
         ELSE IF frontendFramework = "nextjs"
         THEN ("web:dev"     :> buildFrontendScript(packageManager, dir, "dev")) @@
              ("web:build"   :> buildFrontendScript(packageManager, dir, "build")) @@
              ("web:start"   :> buildFrontendScript(packageManager, dir, "start"))
         ELSE <<>>

getPackageManagerCommands(packageManager) ==
    CASE packageManager = "npm"  -> [install |-> "npm install",  run |-> "npm run", exec |-> "npx"]
      [] packageManager = "pnpm" -> [install |-> "pnpm install", run |-> "pnpm",    exec |-> "pnpm dlx"]
      [] OTHER                   -> [install |-> "yarn install", run |-> "yarn",    exec |-> "yarn dlx"]

\* the first element of s outside Valid (None when there is none): where map throws
firstOutside(s, Valid) ==
    IF \E i \in DOMAIN s : s[i] \notin Valid
    THEN s[CHOOSE i \in DOMAIN s : s[i] \notin Valid /\ \A j \in 1..(i - 1) : s[j] \in Valid]
    ELSE None

\* generate, lines 88-109: the Error the three catalog lookups throw (NoError
\* when every key is known)
validateKeys(opts) ==
    IF firstOutside(opts.features, DOMAIN featureCatalogMap) # None
    THEN [message |-> "Module inconnu", key |-> firstOutside(opts.features, DOMAIN featureCatalogMap),
          valid |-> <<>>]
    ELSE IF firstOutside(opts.dataProviders, DOMAIN dataProviderCatalogMap) # None
    THEN [message |-> "Option de persistance inconnue",
          key |-> firstOutside(opts.dataProviders, DOMAIN dataProviderCatalogMap), valid |-> <<>>]
    ELSE IF opts.frontendFramework # "none" /\ opts.frontendFramework \notin DOMAIN frontendFrameworkCatalogMap
    THEN [message |-> "Framework front inconnu", key |-> opts.frontendFramework, valid |-> <<>>]
    ELSE NoError

\* generate, lines 111-162: the TemplateContext of a request whose keys are known
buildContext(opts) ==
    LET dependencies == buildDependencies(opts.language, opts.features, opts.dataProviders)
        frontend == IF opts.frontendFramework \in DOMAIN frontendFrameworkCatalogMap
                    THEN frontendFrameworkCatalogMap[opts.frontendFramework] ELSE NullFrontend
    IN  [ language |-> opts.language,
          features |-> opts.features,
          selectedFeatures |-> [i \in DOMAIN opts.features |-> featureCatalogMap[opts.features[i]]],
          dataProviders |-> opts.dataProviders,
          selectedDataProviders |->
              [i \in DOMAIN opts.dataProviders |-> dataProviderCatalogMap[opts.dataProviders[i]]],
          frontendFramework |-> opts.frontendFramework,
          selectedFrontendFramework |-> frontend,
          frontendAppDirectory |-> frontend.appDirectory,
          dependencies |-> dependencies.dependencies,
          devDependencies |-> dependencies.devDependencies,
          scripts |-> frontendScripts(opts.packageManager, opts.frontendFramework) @@ dependencies.scripts,
          packageManager |-> opts.packageManager,
          packageManagerCommands |-> getPackageManagerCommands(opts.packageManager),
          flags |-> getAdditionalContext(opts) ]

----------------------------------------------------------------------------
(* The variables a specification does not use keep these values *)

IdleResolve == selected = Idle /\ once = Idle /\ twice = Idle /\ missing = Idle

IdleCommand == entry = Idle /\ argv = Idle /\ cli = Idle /\ answers = Idle /\ shell = <<>>

IdleName == projectName = Idle /\ packageName = Idle

\* the context before generate built it
NoContext == [language |-> None]

IdleGenerate == options = Idle /\ context = NoContext /\ thrown = NoError

IdleCopy == frames = <<>> /\ pending = {} /\ awaiting = FALSE

IdleFs ==
    /\ IdleCopy
    /\ layout = Idle
    /\ target = "absent"
    /\ dirs = {}
    /\ files = {}
    /\ walk = <<>>
    /\ loopIdx = 0
    /\ log = <<>>

----------------------------------------------------------------------------
(* SpecContext: generate's validation and context building, for every request *)

\* longest feature list of a request of SpecContext
MaxContextFeatures == 1

\* longest provider list of a request of SpecContext
MaxContextProviders == 2

InitContext ==
    /\ pc = "buildContext"
    /\ IdleResolve /\ IdleCommand /\ IdleFs /\ IdleName
    /\ options \in [ language : Language,
                     features : SeqsUpTo(FeatureKey, MaxContextFeatures),
                     dataProviders : SeqsUpTo(DataProviderKey, MaxContextProviders),
                     frontendFramework : {"none", "react-vite", "nextjs"},
                     packageManager : PackageManager,
                     dryRun : {TRUE} ]
    /\ context = NoContext
    /\ thrown = NoError

\* generate, lines 88-162
BuildContext ==
    /\ pc = "buildContext"
    /\ thrown' = validateKeys(options)
    /\ IF thrown' = NoError
       THEN context' = buildContext(options) /\ pc' = "contextBuilt"
       ELSE context' = context /\ pc' = "failed"
    /\ UNCHANGED <<options, resolveVars, copyVars, nameVars, commandVars, fsVars>>

NextContext == BuildContext

SpecContext == InitContext /\ [][NextContext]_vars

----------------------------------------------------------------------------
(* The template directory of the installation and the target directory *)

\* the directories a template tree can hold, each with its parent
DirParent ==
    ("src" :> ".") @@
    ("src/infrastructure" :> "src") @@
    ("src/infrastructure/persistence" :> "src/infrastructure") @@
    ("src/infrastructure/persistence/prisma" :> "src/infrastructure/persistence") @@
    ("prisma" :> ".") @@
    ("tests" :> ".") @@
    ("docs" :> ".") @@
    ("scripts" :> ".")

\* d and the directories above it, below the root "."
RECURSIVE Ancestors(_)
Ancestors(d) == IF d = "." THEN {} ELSE {d} \cup Ancestors(DirParent[d])

\* the directory of the root that d is or is below
RECURSIVE TopDir(_)
TopDir(d) == IF d = "." \/ DirParent[d] = "." THEN d ELSE TopDir(DirParent[d])

\* path.join(options.targetDirectory, 'prisma') and
\* path.join(options.targetDirectory, 'src', 'infrastructure', 'persistence', 'prisma')
prismaDir == "prisma"
prismaSrcDir == "src/infrastructure/persistence/prisma"

\* a file name, split at the extension the generators look at:
\* 'server.ts' is [stem |-> "server", ext |-> "ts"], 'env.d.ts' is [stem |-> "env", ext |-> "d.ts"]
FileName(stem, ext) == [stem |-> stem, ext |-> ext]

NoName == FileName("", "")

\* a file of a template tree: `ejs` tells that its name ends in '.ejs', and `name`
\* is entry.name.replace(/\.ejs$/, '')
TemplateEntry(dir, stem, ext, ejs) == [dir |-> dir, name |-> FileName(stem, ext), ejs |-> ejs]

Optional(present, entries) == IF present THEN entries ELSE <<>>

\* What the installation's template directory holds is read from the disk; the
\* model reads each part of it when the code first looks at it (layout.read names
\* the parts read so far) and draws it then from these sets.
LayoutParts ==
    [ prismaTemplates |-> BOOLEAN,                                 \* the trees hold mapper files
      hasScripts      |-> BOOLEAN,                                 \* typescript/base/scripts exists
      plainSources    |-> BOOLEAN,                                 \* typescript/base/src holds a '.ts' file
                                                                   \* without the '.ejs' suffix
      tsFeatureDirs   |-> {FeatureKey, FeatureKey \ {"adminPortal"}},  \* typescript/features/*
      jsFeatureDirs   |-> {{}, {"auth"}} ]                         \* javascript/features/*

UnreadLayout ==
    [ read |-> {}, prismaTemplates |-> FALSE, hasScripts |-> FALSE, plainSources |-> FALSE,
      tsFeatureDirs |-> {}, jsFeatureDirs |-> {} ]

Learn(l, part, v) == [l EXCEPT ![part] = v, !.read = @ \cup {part}]

ValuesOf(l, part) == IF part \in l.read THEN {l[part]} ELSE LayoutParts[part]

\* templates/typescript/base, flattened in the order of the walk
typescriptBase(l) ==
    <<TemplateEntry("docs", "api", "md", FALSE)>>
    \o <<TemplateEntry(".", "package", "json", TRUE)>>
    \o Optional(l.prismaTemplates, <<TemplateEntry("prisma", "schema", "prisma", FALSE)>>)
    \o Optional(l.hasScripts, <<TemplateEntry("scripts", "api-cli", "ts", TRUE)>>)
    \o Optional(l.plainSources, <<TemplateEntry("src", "constants", "ts", FALSE)>>)
    \o <<TemplateEntry("src", "env", "d.ts", TRUE)>>
    \o Optional(l.prismaTemplates,
                <<TemplateEntry("src/infrastructure/persistence/prisma", "client", "ts", TRUE)>>)
    \o <<TemplateEntry("src", "server", "ts", TRUE)>>
    \o <<TemplateEntry("tests", "health.test", "ts", TRUE)>>

\* templates/javascript/base
javascriptBase(l) ==
    <<TemplateEntry(".", "package", "json", TRUE)>>
    \o Optional(l.prismaTemplates, <<TemplateEntry("prisma", "schema", "prisma", FALSE)>>)

\* templates/typescript/features/<feature>
typescriptFeature(l, feature) ==
    <<TemplateEntry("src", feature, "ts", TRUE)>>
    \o Optional(l.prismaTemplates /\ feature = "userCrud",
                <<TemplateEntry("src/infrastructure/persistence/prisma", "user-repository", "ts", TRUE)>>)

\* templates/javascript/features/<feature>
javascriptFeature(l, feature) ==
    <<TemplateEntry("src", feature, "js", TRUE)>>

\* the entries of a tree below one of its top directories: the walk of
\* path.join(typescriptRoot, 'base', top)
RECURSIVE below(_, _)
below(entries, top) ==
    IF entries = <<>> THEN <<>>
    ELSE IF TopDir(Head(entries).dir) = top THEN <<Head(entries)>> \o below(Tail(entries), top)
    ELSE below(Tail(entries), top)

\* a template tree: templates/<root>/base (feature is None) or
\* templates/<root>/features/<feature>
Tree(root, feature) == [root |-> root, feature |-> feature]

\* the entries of one copyTemplateDirectory call, each with the tree it comes from
tagged(entries, kind, tree) ==
    [i \in DOMAIN entries |-> [entry |-> entries[i], kind |-> kind, tree |-> tree]]

\* default hook that drops the declaration files
transformRenderedFileTSDropsDeclarations(name) ==
    [skip |-> name.ext = "d.ts", name |-> name, transpiled |-> FALSE]

\* transformRenderedFile of the TypeScript generator (the default hook)
transformRenderedFileTS(name) == [skip |-> FALSE, name |-> name, transpiled |-> FALSE]

\* JavaScript hook without the '.d.ts' test: a declaration file ends in '.ts' too
transformRenderedFileJSKeepsDeclarations(name) ==
    IF name.ext \in {"ts", "d.ts"}
    THEN [skip |-> FALSE, name |-> FileName(name.stem, IF name.ext = "ts" THEN "js" ELSE "d.js"),
          transpiled |-> TRUE]
    ELSE [skip |-> FALSE, name |-> name, transpiled |-> FALSE]

\* transformRenderedFile of the JavaScript generator
transformRenderedFileJS(name) ==
    IF name.ext = "d.ts" THEN [skip |-> TRUE, name |-> name, transpiled |-> FALSE]
    ELSE IF name.ext = "ts" THEN [skip |-> FALSE, name |-> FileName(name.stem, "js"), transpiled |-> TRUE]
    ELSE [skip |-> FALSE, name |-> name, transpiled |-> FALSE]

transformRenderedFile(language, name) ==
    IF language = "typescript" THEN transformRenderedFileTS(name) ELSE transformRenderedFileJS(name)

\* copyTemplateDirectory that hands every file to the hook, the plain ones too
writtenHookOnEveryFile(language, item) ==
    LET e == item.entry
        t == transformRenderedFile(language, e.name)
    IN  [ skip |-> t.skip,
          file |-> [dir |-> e.dir, name |-> t.name, tree |-> item.tree, kind |-> item.kind,
                    transpiled |-> t.transpiled] ]

\* what one entry of copyTemplateDirectory puts in the destination: the file it
\* writes, or skip when the hook returned null
written(language, item) ==
    LET e == item.entry
        t == IF e.ejs THEN transformRenderedFile(language, e.name)
             ELSE [skip |-> FALSE, name |-> e.name, transpiled |-> FALSE]
    IN  [ skip |-> t.skip,
          file |-> [dir |-> e.dir, name |-> t.name, tree |-> item.tree, kind |-> item.kind,
                    transpiled |-> t.transpiled] ]

\* fs.writeFile / fs.copy: the file replaces the one at the same path
putFile(fileSet, f) == {g \in fileSet : ~(g.dir = f.dir /\ g.name = f.name)} \cup {f}

\* fs.pathExists of a directory of the target
pathExists(dirSet, d) == d \in dirSet

\* d is root or below it
IsUnder(d, root) == root \in Ancestors(d)

\* fs.remove of a directory of the target
remove(dirSet, fileSet, root) ==
    [ dirs  |-> {d \in dirSet : ~IsUnder(d, root)},
      files |-> {f \in fileSet : ~IsUnder(f.dir, root)} ]

\* a change of the filesystem, as the log keeps it
Event(op, dir, name, kind, tree) == [op |-> op, dir |-> dir, name |-> name, kind |-> kind, tree |-> tree]

----------------------------------------------------------------------------
(* promptForMissingOptions and runCreateCommand *)

\* the provider list kept as the user gave it, without new Set
dedupeKeepsRepeats(s) == s

\* Array.from(new Set(list)): the first occurrence of each value, in order
RECURSIVE dedupe(_)
dedupe(s) ==
    IF s = <<>> THEN <<>>
    ELSE LET init == dedupe(SubSeq(s, 1, Len(s) - 1))
         IN  IF includes(init, s[Len(s)]) THEN init ELSE Append(init, s[Len(s)])

\* promptForMissingOptions that returns the features as the user gave them
promptKeepsRawFeatures(opts) ==
    [ thrown |-> NoError,
      answers |-> [ language |-> opts.language,
                    features |-> opts.features,
                    packageManager |-> opts.packageManager,
                    dataProviders |-> dedupe(opts.dataProviders),
                    frontendFramework |-> IF opts.frontendFramework = Undefined THEN "none"
                                          ELSE opts.frontendFramework ] ]

\* promptForMissingOptions, lines 156-201; opts holds, for each field, the option
\* of the command line or else the answer of the prompt (options.x ?? answers.x)
promptForMissingOptions(opts) ==
    LET resolvedFeatures == resolveFeatureDependencies(opts.features)
        dataProviders == dedupe(opts.dataProviders)
        frontendFrameworkInput == IF opts.frontendFramework = Undefined THEN "none"
                                  ELSE opts.frontendFramework
        unknownProviders == filterIn(dataProviders, Range(dataProviders) \ DOMAIN dataProviderCatalogMap)
        failed(message, key, valid) ==
            [thrown |-> [message |-> message, key |-> key, valid |-> valid], answers |-> Idle]
    IN  IF resolvedFeatures.thrown # None
        THEN failed("Unknown feature", resolvedFeatures.thrown, <<>>)
        ELSE IF ~isFrontendFrameworkKey(frontendFrameworkInput)
        THEN failed("Framework front inconnu", frontendFrameworkInput, FrontendKeysListed)
        ELSE IF missingDependencies(resolvedFeatures.resolved) # <<>>
        THEN failed("Impossible de resoudre les dependances des modules",
                    Head(missingDependencies(resolvedFeatures.resolved)), <<>>)
        ELSE IF unknownProviders # <<>>
        THEN failed("Options de persistance inconnues", Head(unknownProviders), <<>>)
        ELSE [ thrown |-> NoError,
               answers |-> [ language |-> opts.language,
                             features |-> resolvedFeatures.resolved,
                             packageManager |-> opts.packageManager,
                             dataProviders |-> dataProviders,
                             frontendFramework |-> frontendFrameworkInput ] ]

\* ensureSafeProjectDirectory without the readdirSync test of lines 22-25
ensureSafeAcceptsNonEmpty(targetKind, dirSet, fileSet) ==
    IF targetKind = "absent" THEN NoError
    ELSE IF targetKind # "directory"
    THEN [message |-> "existe deja et n'est pas un dossier", key |-> None, valid |-> <<>>]
    ELSE NoError

\* ensureSafeProjectDirectory: the Error it throws (NoError when the target is
\* absent or an empty directory)
ensureSafeProjectDirectory(targetKind, dirSet, fileSet) ==
    IF targetKind = "absent" THEN NoError
    ELSE IF targetKind # "directory"
    THEN [message |-> "existe deja et n'est pas un dossier", key |-> None, valid |-> <<>>]
    ELSE IF dirSet # {} \/ fileSet # {}
    THEN [message |-> "n'est pas vide", key |-> None, valid |-> <<>>]
    ELSE NoError

\* the GenerateProjectOptions runCreateCommand builds (create.ts lines 70-78): the
\* object literal has no frontendFramework property
generateOptionsOf(a, commandOptions) ==
    [ language |-> a.language,
      features |-> a.features,
      packageManager |-> a.packageManager,
      dataProviders |-> a.dataProviders,
      frontendFramework |-> Undefined,
      dryRun |-> commandOptions.dryRun ]

----------------------------------------------------------------------------
(* Spec: one run, entered by runCreateCommand or by generate *)

\* longest feature list of a run of Spec
MaxFeatures == 2

\* the provider lists of the runs of Spec
ProviderLists ==
    {<<>>, <<"prisma">>, <<"postgresql">>, <<UnknownProvider>>, <<"prisma", "prisma">>,
     <<"postgresql", "prisma", "postgresql">>}

\* the front-end keys of the runs of Spec
FrontendInputs == {"none", "nextjs", UnknownFrontend}

\* a file the user left in the target directory
StrayFile == [dir |-> ".", name |-> FileName("notes", "txt"), tree |-> Tree(None, None), kind |-> "user",
              transpiled |-> FALSE]

\* the target path before the run: absent, an empty directory, a directory that
\* holds a file (when strayFiles) or a file (when it is among targetKinds)
InitFs(targetKinds, strayFiles) ==
    /\ IdleCopy
    /\ layout = UnreadLayout
    /\ target \in targetKinds
    /\ dirs = {}
    /\ files \in (IF target = "directory" /\ strayFiles THEN {{}, {StrayFile}} ELSE {{}})
    /\ walk = <<>>
    /\ loopIdx = 0
    /\ log = <<>>

\* runCreateCommand(directoryArg, options) is called
InitCommand ==
    /\ entry = "runCreateCommand"
    /\ pc = "prompt"
    /\ argv = Idle
    /\ shell = <<>>
    /\ cli \in [ language : Language,
                 features : SeqsUpTo(FeatureKey \cup {UnknownFeature}, MaxFeatures),
                 dataProviders : ProviderLists,
                 frontendFramework : FrontendInputs,
                 packageManager : {"npm"},
                 dryRun : BOOLEAN ]
    /\ answers = Idle
    /\ IdleGenerate
    /\ InitFs({"absent", "directory", "file"}, TRUE)

\* generator.generate(options) is called
InitGenerate ==
    /\ entry = "generate"
    /\ pc = "generate"
    /\ argv = Idle
    /\ shell = <<>>
    /\ cli = Idle
    /\ answers = Idle
    /\ options \in [ language : Language,
                     features : SeqsUpTo(FeatureKey \cup {UnknownFeature}, MaxFeatures),
                     dataProviders : {p \in ProviderLists : Len(p) <= 1},
                     frontendFramework : FrontendInputs,
                     packageManager : {"npm"},
                     dryRun : BOOLEAN ]
    /\ context = NoContext
    /\ thrown = NoError
    /\ InitFs({"absent", "directory"}, FALSE)

Init == IdleResolve /\ IdleName /\ (InitCommand \/ InitGenerate)

\* runCreateCommand, line 62
Prompt ==
    /\ pc = "prompt"
    /\ LET r == promptForMissingOptions(cli)
       IN  /\ thrown' = r.thrown
           /\ answers' = r.answers
           /\ pc' = IF r.thrown = NoError THEN "ensureSafe" ELSE "rejected"
    /\ UNCHANGED <<entry, argv, cli, shell, options, context, resolveVars, copyVars, nameVars, fsVars>>

\* runCreateCommand, lines 64-78: the directory check, then the call of generate
EnsureSafe ==
    /\ pc = "ensureSafe"
    /\ thrown' = ensureSafeProjectDirectory(target, dirs, files)
    /\ IF thrown' = NoError
       THEN options' = generateOptionsOf(answers, cli) /\ pc' = "generate"
       ELSE options' = options /\ pc' = "rejected"
    /\ UNCHANGED <<context, resolveVars, copyVars, nameVars, commandVars, fsVars>>

\* generate that creates the target directory in dry-run mode too
EnsureTargetDirInDryRun ==
    /\ pc = "generate"
    /\ target # "file"
    /\ target' = "directory"
    /\ log' = IF target = "absent" THEN Append(log, Event("mkdir", ".", NoName, "target", Tree(None, None))) ELSE log
    /\ pc' = "buildContext"
    /\ UNCHANGED <<layout, dirs, files, walk, loopIdx, resolveVars, copyVars, nameVars, commandVars, generateVars>>

\* generate, lines 84-86: fs.ensureDir(targetDirectory) unless dryRun
EnsureTargetDir ==
    /\ pc = "generate"
    /\ target # "file"
    /\ IF ~options.dryRun /\ target = "absent"
       THEN /\ target' = "directory"
            /\ log' = Append(log, Event("mkdir", ".", NoName, "target", Tree(None, None)))
       ELSE UNCHANGED <<target, log>>
    /\ pc' = "buildContext"
    /\ UNCHANGED <<layout, dirs, files, walk, loopIdx, resolveVars, copyVars, nameVars, commandVars, generateVars>>

\* the language of the generator: the registry gives the generator of
\* options.language
dialect == options.language

\* generate, line 165: the walk of the base template tree starts
RenderBase ==
    /\ pc = "contextBuilt"
    /\ ~options.dryRun
    /\ \E p \in ValuesOf(layout, "prismaTemplates") :
       \E sc \in (IF dialect = "typescript" THEN ValuesOf(layout, "hasScripts") ELSE {layout.hasScripts}) :
       \E ps \in (IF dialect = "typescript" THEN ValuesOf(layout, "plainSources") ELSE {layout.plainSources}) :
          LET l1 == Learn(layout, "prismaTemplates", p)
              l2 == IF dialect = "typescript"
                    THEN Learn(Learn(l1, "hasScripts", sc), "plainSources", ps)
                    ELSE l1
          IN  /\ layout' = l2
              /\ walk' = IF dialect = "typescript"
                         THEN tagged(typescriptBase(l2), "base", Tree("typescript", None))
                         ELSE tagged(javascriptBase(l2), "base", Tree("javascript", None))
    /\ pc' = "walkBase"
    /\ loopIdx' = 1
    /\ UNCHANGED <<target, dirs, files, log, resolveVars, copyVars, nameVars, commandVars, generateVars>>

\* the position after the walk of one tree ended
afterWalk(at) ==
    CASE at = "walkBase"           -> "renderFeatures"
      [] at = "walkFeature"        -> "renderFeatures"
      [] at = "walkProjectBase"    -> "projectFeatures"
      [] at = "walkProjectFeature" -> "projectFeatures"

\* copyTemplateDirectory, lines 198-220: one file entry of the walk
CopyEntry ==
    /\ pc \in {"walkBase", "walkFeature", "walkProjectBase", "walkProjectFeature"}
    /\ walk # <<>>
    /\ LET w == written(dialect, Head(walk))
       IN  IF w.skip
           THEN UNCHANGED <<dirs, files, log>>
           ELSE /\ dirs' = dirs \cup Ancestors(w.file.dir)
                /\ files' = putFile(files, w.file)
                /\ log' = Append(log, Event("write", w.file.dir, w.file.name, w.file.kind, w.file.tree))
    /\ walk' = Tail(walk)
    /\ pc' = IF Tail(walk) = <<>> THEN afterWalk(pc) ELSE pc
    /\ UNCHANGED <<layout, target, loopIdx, resolveVars, copyVars, nameVars, commandVars, generateVars>>

\* the positions of a run inside copyTemplateDirectory
Walks == {"walkBase", "walkFeature", "walkProjectBase", "walkProjectFeature"}

\* the Error of the call that failed while an entry was handled
EntryFailed(call) == [message |-> call, key |-> None, valid |-> <<>>]

\* the calls of the handling of an entry that can reject: ejs.renderFile, then
\* (unless the hook returned null) fs.writeFile, or fs.copy for a plain file
failingCalls(language, item) ==
    IF ~item.entry.ejs THEN {"fs.copy"}
    ELSE IF written(language, item).skip THEN {"ejs.renderFile"}
    ELSE {"ejs.renderFile", "fs.writeFile"}

\* copyTemplateDirectory that removes what the run wrote when an entry fails
CopyEntryFailsRollsBack ==
    /\ pc \in Walks
    /\ walk # <<>>
    /\ \E call \in failingCalls(dialect, Head(walk)) : thrown' = EntryFailed(call)
    /\ dirs' = {}
    /\ files' = {f \in files : f.kind = "user"}
    /\ pc' = "failed"
    /\ UNCHANGED <<layout, target, log, walk, loopIdx, options, context, resolveVars, copyVars, nameVars, commandVars>>

\* copyTemplateDirectory, lines 198-220: the rendering or the writing of one
\* entry rejects; nothing catches the Error, which leaves the loop,
\* copyTemplateDirectory and generate. fs.ensureDir has run before a write that
\* fails.
CopyEntryFails ==
    /\ pc \in Walks
    /\ walk # <<>>
    /\ \E call \in failingCalls(dialect, Head(walk)) :
          /\ thrown' = EntryFailed(call)
          /\ dirs' = IF call = "ejs.renderFile" THEN dirs
                     ELSE dirs \cup Ancestors(written(dialect, Head(walk)).file.dir)
    /\ pc' = "failed"
    /\ UNCHANGED <<layout, target, files, log, walk, loopIdx, options, context, resolveVars, copyVars, nameVars,
                   commandVars>>

\* generate, lines 167-172: the next feature of the loop, its tree walked when
\* getFeatureTemplateDir finds it
RenderFeature ==
    /\ pc = "renderFeatures"
    /\ loopIdx <= Len(options.features)
    /\ LET part == IF dialect = "typescript" THEN "tsFeatureDirs" ELSE "jsFeatureDirs"
           featureKey == options.features[loopIdx]
       IN  \E present \in ValuesOf(layout, part) :
              /\ layout' = Learn(layout, part, present)
              /\ IF featureKey \in present
                 THEN /\ walk' = IF dialect = "typescript"
                                 THEN tagged(typescriptFeature(layout, featureKey), "feature",
                                             Tree("typescript", featureKey))
                                 ELSE tagged(javascriptFeature(layout, featureKey), "feature",
                                             Tree("javascript", featureKey))
                      /\ pc' = "walkFeature"
                 ELSE UNCHANGED <<walk, pc>>
    /\ loopIdx' = loopIdx + 1
    /\ UNCHANGED <<target, dirs, files, log, resolveVars, copyVars, nameVars, commandVars, generateVars>>

\* the directories afterGenerate removes: both whatever the providers
cleanupDirsAlways(opts) == <<prismaDir, prismaSrcDir>>

\* TypeScript afterGenerate, lines 142-145: the directories it removes
cleanupDirs(opts) ==
    IF ~includes(opts.dataProviders, "prisma") THEN <<prismaDir, prismaSrcDir>> ELSE <<>>

\* fs.pathExists(dir) then fs.remove(dir), for each directory of the list
RECURSIVE removeEach(_, _)
removeEach(fs, list) ==
    IF list = <<>> THEN fs
    ELSE IF pathExists(fs.dirs, Head(list))
    THEN LET r == remove(fs.dirs, fs.files, Head(list))
         IN  removeEach([dirs |-> r.dirs, files |-> r.files,
                         log |-> Append(fs.log, Event("remove", Head(list), NoName, "cleanup", Tree(None, None)))],
                        Tail(list))
    ELSE removeEach(fs, Tail(list))

\* generate, line 175, TypeScript generator: afterGenerate, lines 135-154
AfterGenerateTypeScript ==
    /\ \/ pc = "contextBuilt" /\ options.dryRun
       \/ pc = "renderFeatures" /\ loopIdx > Len(options.features)
    /\ dialect = "typescript"
    /\ IF options.dryRun
       THEN UNCHANGED <<dirs, files, log>>
       ELSE LET r == removeEach([dirs |-> dirs, files |-> files, log |-> log], cleanupDirs(options))
            IN  dirs' = r.dirs /\ files' = r.files /\ log' = r.log
    /\ pc' = "returned"
    /\ UNCHANGED <<layout, target, walk, loopIdx, resolveVars, copyVars, nameVars, commandVars, generateVars>>

\* generate, line 175, JavaScript generator: afterGenerate, lines 136-152, up to
\* the walks of the TypeScript base tree's src, tests, docs and scripts
AfterGenerateJavaScript ==
    /\ \/ pc = "contextBuilt" /\ options.dryRun
       \/ pc = "renderFeatures" /\ loopIdx > Len(options.features)
    /\ dialect = "javascript"
    /\ IF options.dryRun
       THEN /\ pc' = "returned"
            /\ UNCHANGED <<layout, walk, loopIdx>>
       ELSE \E sc \in ValuesOf(layout, "hasScripts") :
            \E ps \in ValuesOf(layout, "plainSources") :
              LET l == Learn(Learn(layout, "hasScripts", sc), "plainSources", ps)
                  base == typescriptBase(l)
              IN  /\ layout' = l
                  /\ walk' = tagged(below(base, "src") \o below(base, "tests") \o below(base, "docs")
                                    \o below(base, "scripts"), "base", Tree("typescript", None))
                  /\ pc' = "walkProjectBase"
                  /\ loopIdx' = 1
    /\ UNCHANGED <<target, dirs, files, log, resolveVars, copyVars, nameVars, commandVars, generateVars>>

\* JavaScript afterGenerate, lines 154-159: the next feature of the loop over the
\* TypeScript feature trees
ProjectFeature ==
    /\ pc = "projectFeatures"
    /\ loopIdx <= Len(options.features)
    /\ LET featureKey == options.features[loopIdx]
       IN  \E present \in ValuesOf(layout, "tsFeatureDirs") :
              /\ layout' = Learn(layout, "tsFeatureDirs", present)
              /\ IF featureKey \in present
                 THEN /\ walk' = tagged(typescriptFeature(layout, featureKey), "feature",
                                        Tree("typescript", featureKey))
                      /\ pc' = "walkProjectFeature"
                 ELSE UNCHANGED <<walk, pc>>
    /\ loopIdx' = loopIdx + 1
    /\ UNCHANGED <<target, dirs, files, log, resolveVars, copyVars, nameVars, commandVars, generateVars>>

\* JavaScript afterGenerate returns after the last feature
ProjectDone ==
    /\ pc = "projectFeatures"
    /\ loopIdx > Len(options.features)
    /\ pc' = "returned"
    /\ UNCHANGED <<resolveVars, copyVars, nameVars, commandVars, generateVars, fsVars>>

Next ==
    \/ Prompt
    \/ EnsureSafe
    \/ EnsureTargetDir
    \/ BuildContext
    \/ RenderBase
    \/ CopyEntry
    \/ CopyEntryFails
    \/ RenderFeature
    \/ AfterGenerateTypeScript
    \/ AfterGenerateJavaScript
    \/ ProjectFeature
    \/ ProjectDone

Spec == Init /\ [][Next]_vars

----------------------------------------------------------------------------
(* SpecCommand: the command surface, from main's action handler to the call of
   generate *)

\* an option of the command line that holds a list: its text cut at the
\* separators /[,\s]+/ (a text that starts or ends with a separator gives an
\* empty first or last piece), or no option
Given(pieces) == [set |-> TRUE, value |-> pieces]
NoList == [set |-> FALSE, value |-> <<>>]

\* parseListOption: undefined for a missing or empty text, else the pieces that
\* are not empty
parseListOption(input) ==
    IF ~input.set \/ input.value = <<"">> THEN NoList
    ELSE Given(filterIn(input.value, Range(input.value) \ {""}))

\* featureCatalog.map((feature) => feature.key), and the same for the providers
FeatureKeysListed == [i \in DOMAIN featureCatalog |-> featureCatalog[i].key]
ProviderKeysListed == [i \in DOMAIN dataProviderCatalog |-> dataProviderCatalog[i].key]

\* the action handler of main, lines 99-137: the Error its checks of the options
\* throw (NoError when they pass). There is no check of packageManagerOption.
mainChecks(a) ==
    LET selectedFeatures == parseListOption(a.features)
        unknownFeatures == filterIn(selectedFeatures.value, Range(selectedFeatures.value) \ FeatureKey)
        selectedDataProviders == parseListOption(a.dataProviders)
        unknownProviders ==
            filterIn(selectedDataProviders.value, Range(selectedDataProviders.value) \ DataProviderKey)
    IN  IF a.language # Undefined /\ a.language \notin Language
        THEN [message |-> "Langage inconnu", key |-> a.language, valid |-> <<"typescript", "javascript">>]
        ELSE IF selectedFeatures.set /\ unknownFeatures # <<>>
        THEN [message |-> "Modules inconnus", key |-> Head(unknownFeatures), valid |-> FeatureKeysListed]
        ELSE IF selectedDataProviders.set /\ unknownProviders # <<>>
        THEN [message |-> "Options de persistance inconnues", key |-> Head(unknownProviders),
              valid |-> ProviderKeysListed]
        ELSE IF a.frontend # Undefined /\ ~isFrontendFrameworkKey(a.frontend)
        THEN [message |-> "Framework front inconnu", key |-> a.frontend, valid |-> FrontendKeysListed]
        ELSE NoError

\* what the user answers to the questions of promptForMissingOptions: a choice
\* of the list or of the checkbox of each question (the features checkbox
\* refuses an empty selection)
InquirerLanguages == Language
InquirerFeatures == {<<"auth">>, <<"auth", "userCrud">>, <<"adminPortal">>}
InquirerPackageManagers == PackageManager
InquirerDataProviders == {<<>>, <<"prisma">>}
InquirerFrontends == {"none", "react-vite"}

\* options.x ?? answers.x: the question is asked only when the option is missing
orAnswer(option, Choices) == IF option = Undefined THEN Choices ELSE {option}
listOrAnswer(option, Choices) == IF option.set THEN {option.value} ELSE Choices

\* the options of the command lines of SpecCommand
LanguageInputs == {Undefined, "javascript", "python"}
FeatureInputs == {NoList, Given(<<"userCrud">>), Given(<<"", "auth">>), Given(<<UnknownFeature, "auth">>),
                  Given(<<"", "">>)}
ProviderInputs == {NoList, Given(<<"prisma">>), Given(<<UnknownProvider>>)}
FrontendOptionInputs == {Undefined, "nextjs", UnknownFrontend}
PackageManagerInputs == {Undefined, "pnpm", "bun"}

\* the program is started
InitMain ==
    /\ entry = "main"
    /\ pc = "main"
    /\ argv \in [ language : LanguageInputs,
                  features : FeatureInputs,
                  dataProviders : ProviderInputs,
                  frontend : FrontendOptionInputs,
                  packageManager : PackageManagerInputs,
                  dryRun : BOOLEAN ]
    /\ cli = Idle
    /\ answers = Idle
    /\ shell = <<>>
    /\ IdleGenerate
    /\ IdleResolve
    /\ IdleName
    /\ InitFs({"absent", "file"}, FALSE)

\* main's action handler, lines 90-147: the checks, then the call of
\* runCreateCommand; cli' holds, for each field, the option or else the answer
\* the user will give to the question promptForMissingOptions asks for it
Main ==
    /\ pc = "main"
    /\ thrown' = mainChecks(argv)
    /\ IF thrown' = NoError
       THEN /\ pc' = "prompt"
            /\ cli' \in [ language : orAnswer(argv.language, InquirerLanguages),
                          features : listOrAnswer(parseListOption(argv.features), InquirerFeatures),
                          dataProviders : listOrAnswer(parseListOption(argv.dataProviders),
                                                       InquirerDataProviders),
                          frontendFramework : orAnswer(argv.frontend, InquirerFrontends),
                          packageManager : orAnswer(argv.packageManager, InquirerPackageManagers),
                          dryRun : {argv.dryRun} ]
       ELSE pc' = "rejected" /\ cli' = cli
    /\ UNCHANGED <<entry, argv, answers, shell, options, context, resolveVars, copyVars, nameVars, fsVars>>

NextCommand == Main \/ Prompt \/ EnsureSafe

SpecCommand == InitMain /\ [][NextCommand]_vars

----------------------------------------------------------------------------
(* SpecName: formatPackageName (utils/project-name.ts) applied to project names.
   A string is the list of its characters. *)

\* longest project name drawn from NameAlphabet
MaxNameLen == 3

AsciiUpper == <<"A", "B", "C", "D", "E", "F", "G", "H", "I", "J", "K", "L", "M",
                "N", "O", "P", "Q", "R", "S", "T", "U", "V", "W", "X", "Y", "Z">>

AsciiLower == <<"a", "b", "c", "d", "e", "f", "g", "h", "i", "j", "k", "l", "m",
                "n", "o", "p", "q", "r", "s", "t", "u", "v", "w", "x", "y", "z">>

AsciiDigit == {"0", "1", "2", "3", "4", "5", "6", "7", "8", "9"}

\* characters outside ASCII, each named: U+00C9, U+00E9 and U+212A
CapitalEAcute == "LATIN CAPITAL LETTER E WITH ACUTE"
SmallEAcute == "LATIN SMALL LETTER E WITH ACUTE"
KelvinSign == "KELVIN SIGN"

\* the characters String.prototype.trim removes
WhiteSpace == {" "}

\* String.prototype.toLowerCase, one character: the Unicode lower case mapping
\* (the Kelvin sign maps to the ASCII letter k)
lowerOf(c) ==
    IF c \in Range(AsciiUpper) THEN AsciiLower[CHOOSE i \in DOMAIN AsciiUpper : AsciiUpper[i] = c]
    ELSE IF c = CapitalEAcute THEN SmallEAcute
    ELSE IF c = KelvinSign THEN "k"
    ELSE c

toLowerCase(value) == [i \in DOMAIN value |-> lowerOf(value[i])]

RECURSIVE trimStart(_)
trimStart(value) ==
    IF value # <<>> /\ Head(value) \in WhiteSpace THEN trimStart(Tail(value)) ELSE value

RECURSIVE trimEnd(_)
trimEnd(value) ==
    IF value # <<>> /\ value[Len(value)] \in WhiteSpace
    THEN trimEnd(SubSeq(value, 1, Len(value) - 1)) ELSE value

trim(value) == trimEnd(trimStart(value))

\* the class [a-z0-9]
SlugChar == Range(AsciiLower) \cup AsciiDigit

\* .replace(/[^a-z0-9]+/g, '-'): each longest run of other characters becomes one '-'
RECURSIVE replaceRuns(_)
replaceRuns(value) ==
    IF value = <<>> THEN <<>>
    ELSE IF Head(value) \in SlugChar THEN <<Head(value)>> \o replaceRuns(Tail(value))
    ELSE IF Len(value) > 1 /\ value[2] \notin SlugChar THEN replaceRuns(Tail(value))
    ELSE <<"-">> \o replaceRuns(Tail(value))

\* replace(/(^-|-$)/g, '') that removes the leading '-' only
stripEdgesLeadingOnly(value) ==
    IF value # <<>> /\ Head(value) = "-" THEN Tail(value) ELSE value

\* .replace(/(^-|-$)/g, ''): a '-' at the start is removed, then a '-' at the end
stripEdges(value) ==
    LET start == IF value # <<>> /\ Head(value) = "-" THEN Tail(value) ELSE value
    IN  IF start # <<>> /\ start[Len(start)] = "-" THEN SubSeq(start, 1, Len(start) - 1) ELSE start

toSlug(value) == stripEdges(replaceRuns(toLowerCase(trim(value))))

\* 'template-api'
DefaultPackageName == <<"t", "e", "m", "p", "l", "a", "t", "e", "-", "a", "p", "i">>

\* slug || 'template-api'
formatPackageName(name) == IF toSlug(name) = <<>> THEN DefaultPackageName ELSE toSlug(name)

\* the characters of the short project names of SpecName
NameAlphabet == {"a", "A", "1", " ", "-", SmallEAcute, KelvinSign}

\* the longer project names of SpecName: 'Template API', 'template-api', ' My  API_2 '
LongNames ==
    { <<"T", "e", "m", "p", "l", "a", "t", "e", " ", "A", "P", "I">>,
      DefaultPackageName,
      <<" ", "M", "y", " ", " ", "A", "P", "I", "_", "2", " ">> }

InitName ==
    /\ pc = "named"
    /\ IdleResolve /\ IdleCommand /\ IdleGenerate /\ IdleFs
    /\ projectName \in SeqsUpTo(NameAlphabet, MaxNameLen) \cup LongNames
    /\ packageName = Idle

\* generate, line 137: formatPackageName(projectName)
FormatPackageName ==
    /\ pc = "named"
    /\ packageName' = formatPackageName(projectName)
    /\ pc' = "formatted"
    /\ UNCHANGED <<projectName, resolveVars, copyVars, commandVars, generateVars, fsVars>>

NextName == FormatPackageName

SpecName == InitName /\ [][NextName]_vars

----------------------------------------------------------------------------
(* SpecInstall: runCreateCommand with the optional installation and test run
   that follow the generation (the create.ts that holds runShellCommand) *)

\* getPackageManagerCommand(packageManager, command) for 'install' and 'test'
getPackageManagerCommand(packageManager, command) ==
    IF packageManager = "npm" THEN (IF command = "install" THEN "npm install" ELSE "npm test")
    ELSE IF packageManager = "pnpm" THEN (IF command = "install" THEN "pnpm install" ELSE "pnpm test")
    ELSE (IF command = "install" THEN "yarn install" ELSE "yarn test")

\* what the 'close' event of a child process gives as code: an exit code, or
\* null when a signal ended the process
ExitCodes == {"0", "1", "127", "null"}

\* an entry of shell: the answer to the confirmation ("confirm", code "yes" or
\* "no"), the start of a child process ("spawn"), its 'close' event with the
\* code, its 'error' event, or the message of the catch clause ("reported")
ShellEvent(kind, command, code) == [kind |-> kind, command |-> command, code |-> code]

\* how runShellCommand settles: resolved on 'close' with code 0, rejected on
\* 'close' with another code and on 'error'
Settlements(command) ==
    {ShellEvent("close", command, code) : code \in ExitCodes} \cup {ShellEvent("error", command, None)}

resolves(event) == event.kind = "close" /\ event.code = "0"

\* runCreateCommand is called
InitInstall ==
    /\ entry = "runCreateCommand"
    /\ pc = "prompt"
    /\ argv = Idle
    /\ shell = <<>>
    /\ cli \in [ language : Language,
                 features : {<<"auth">>},
                 dataProviders : {<<>>},
                 frontendFramework : {"none"},
                 packageManager : PackageManager,
                 dryRun : BOOLEAN ]
    /\ answers = Idle
    /\ IdleGenerate
    /\ IdleResolve
    /\ IdleName
    /\ InitFs({"absent", "file"}, FALSE)

\* lines 100-108: await generator.generate(...) settles; a rejection leaves
\* runCreateCommand
GenerateSettles ==
    /\ pc = "generate"
    /\ \/ pc' = "generated" /\ thrown' = NoError
       \/ pc' = "failed" /\ thrown' = EntryFailed("fs.writeFile")
    /\ UNCHANGED <<options, context, resolveVars, copyVars, nameVars, commandVars, fsVars>>

\* lines 110-124: the instructions are printed; if (options.dryRun) return
ReturnInDryRun ==
    /\ pc = "generated"
    /\ cli.dryRun
    /\ pc' = "commandReturned"
    /\ UNCHANGED <<generateVars, resolveVars, copyVars, nameVars, commandVars, fsVars>>

\* lines 126-137: the confirmation prompt; if (!shouldRunTests) return
Confirm ==
    /\ pc = "generated"
    /\ ~cli.dryRun
    /\ \E shouldRunTests \in BOOLEAN :
          /\ shell' = Append(shell, ShellEvent("confirm", None, IF shouldRunTests THEN "yes" ELSE "no"))
          /\ pc' = IF shouldRunTests THEN "install" ELSE "commandReturned"
    /\ UNCHANGED <<entry, argv, cli, answers, generateVars, resolveVars, copyVars, nameVars, fsVars>>

\* line 144: runShellCommand(installCommand, targetDirectory) spawns the child
SpawnInstall ==
    /\ pc = "install"
    /\ shell' = Append(shell, ShellEvent("spawn", getPackageManagerCommand(answers.packageManager, "install"),
                                         None))
    /\ pc' = "installing"
    /\ UNCHANGED <<entry, argv, cli, answers, generateVars, resolveVars, copyVars, nameVars, fsVars>>

\* the installation whose result is not looked at
InstallSettlesIgnoresCode ==
    /\ pc = "installing"
    /\ \E event \in Settlements(getPackageManagerCommand(answers.packageManager, "install")) :
          /\ shell' = Append(shell, event)
          /\ pc' = "test"
    /\ UNCHANGED <<entry, argv, cli, answers, generateVars, resolveVars, copyVars, nameVars, fsVars>>

\* line 144: the promise of the installation settles; a rejection goes to the
\* catch clause
InstallSettles ==
    /\ pc = "installing"
    /\ \E event \in Settlements(getPackageManagerCommand(answers.packageManager, "install")) :
          /\ shell' = Append(shell, event)
          /\ pc' = IF resolves(event) THEN "test" ELSE "caught"
    /\ UNCHANGED <<entry, argv, cli, answers, generateVars, resolveVars, copyVars, nameVars, fsVars>>

\* line 147: runShellCommand(testCommand, targetDirectory) spawns the child
SpawnTest ==
    /\ pc = "test"
    /\ shell' = Append(shell, ShellEvent("spawn", getPackageManagerCommand(answers.packageManager, "test"), None))
    /\ pc' = "testing"
    /\ UNCHANGED <<entry, argv, cli, answers, generateVars, resolveVars, copyVars, nameVars, fsVars>>

\* lines 147-149: the promise of the test run settles
TestSettles ==
    /\ pc = "testing"
    /\ \E event \in Settlements(getPackageManagerCommand(answers.packageManager, "test")) :
          /\ shell' = Append(shell, event)
          /\ pc' = IF resolves(event) THEN "commandReturned" ELSE "caught"
    /\ UNCHANGED <<entry, argv, cli, answers, generateVars, resolveVars, copyVars, nameVars, fsVars>>

\* a catch clause that throws the error again
RethrowFailure ==
    /\ pc = "caught"
    /\ thrown' = EntryFailed(shell[Len(shell)].command)
    /\ pc' = "failed"
    /\ UNCHANGED <<options, context, resolveVars, copyVars, nameVars, commandVars, fsVars>>

\* lines 150-154: the catch clause prints the message; runCreateCommand returns
ReportFailure ==
    /\ pc = "caught"
    /\ shell' = Append(shell, ShellEvent("reported", shell[Len(shell)].command, None))
    /\ pc' = "commandReturned"
    /\ UNCHANGED <<entry, argv, cli, answers, generateVars, resolveVars, copyVars, nameVars, fsVars>>

NextInstall ==
    \/ Prompt
    \/ EnsureSafe
    \/ GenerateSettles
    \/ ReturnInDryRun
    \/ Confirm
    \/ SpawnInstall
    \/ InstallSettles
    \/ SpawnTest
    \/ TestSettles
    \/ ReportFailure

SpecInstall == InitInstall /\ [][NextInstall]_vars

----------------------------------------------------------------------------
(* SpecCopy: one call of copyTemplateDirectory with its recursive calls and
   the writes it awaits *)

\* a Dirent of fs.readdir(templateDir, { withFileTypes: true }): a directory
\* (path is the directory) or a file (path is the directory that holds it)
Dirent(isDirectory, path, item) == [isDirectory |-> isDirectory, path |-> path, item |-> item]

\* the directory directly below d that is d2 or above it, "." when there is none
RECURSIVE childToward(_, _)
childToward(d, d2) ==
    IF d2 = "." THEN "."
    ELSE IF DirParent[d2] = d THEN d2
    ELSE childToward(d, DirParent[d2])

\* fs.readdir of the directory d of a template tree given by its files in the
\* order of the walk
RECURSIVE readdir(_, _)
readdir(entries, d) ==
    IF entries = <<>> THEN <<>>
    ELSE LET e == Head(entries)
             rest == readdir(Tail(entries), d)
             c == childToward(d, e.dir)
         IN  IF e.dir = d THEN <<Dirent(FALSE, d, e)>> \o rest
             ELSE IF c = "." THEN rest
             ELSE IF \E i \in DOMAIN rest : rest[i].isDirectory /\ rest[i].path = c THEN rest
             ELSE <<Dirent(TRUE, c, TemplateEntry(c, "", "", FALSE))>> \o rest

\* the files of templates/<tree.root>/base
treeEntries(l, tree) == IF tree.root = "typescript" THEN typescriptBase(l) ELSE javascriptBase(l)

\* a call of copyTemplateDirectory: the tree, the directory and the entries
\* the for loop has not reached; the loop stays at a directory entry while the
\* recursive call runs
Frame(tree, dir, rest) == [tree |-> tree, dir |-> dir, rest |-> rest]

top == frames[Len(frames)]

\* the calls the generators make: each walks the base tree of its own
\* language, and the JavaScript generator walks src of the TypeScript base tree
CopyCalls ==
    { [language |-> "typescript", tree |-> Tree("typescript", None), dir |-> "."],
      [language |-> "javascript", tree |-> Tree("javascript", None), dir |-> "."],
      [language |-> "javascript", tree |-> Tree("typescript", None), dir |-> "src"] }

\* copyTemplateDirectory(templateDir, destinationDir, context) is called
InitCopy ==
    /\ entry = "copyTemplateDirectory"
    /\ pc = "copy"
    /\ argv = Idle /\ cli = Idle /\ answers = Idle /\ shell = <<>>
    /\ IdleResolve /\ IdleName
    /\ context = NoContext
    /\ thrown = NoError
    /\ target = "directory"
    /\ dirs = {} /\ files = {} /\ walk = <<>> /\ loopIdx = 0 /\ log = <<>>
    /\ pending = {} /\ awaiting = FALSE
    /\ \E call \in CopyCalls :
          /\ options = [ language |-> call.language, features |-> <<"auth">>, dataProviders |-> <<>>,
                         frontendFramework |-> "none", packageManager |-> "npm", dryRun |-> FALSE ]
          /\ layout \in [ read : {DOMAIN LayoutParts}, prismaTemplates : BOOLEAN, hasScripts : BOOLEAN,
                          plainSources : BOOLEAN,
                          tsFeatureDirs : {FeatureKey}, jsFeatureDirs : {{"auth"}} ]
          /\ frames = <<Frame(call.tree, call.dir, readdir(treeEntries(layout, call.tree), call.dir))>>

\* the for loop moves to the next entry
advance(stack) == [stack EXCEPT ![Len(stack)].rest = Tail(@)]

\* the file entry whose write is started and not awaited
HandleFileWithoutAwait ==
    /\ pc = "copy" /\ ~awaiting
    /\ frames # <<>> /\ top.rest # <<>> /\ ~Head(top.rest).isDirectory
    /\ LET w == written(dialect, [entry |-> Head(top.rest).item, kind |-> "base", tree |-> top.tree])
       IN  IF w.skip
           THEN /\ log' = Append(log, Event("skip", w.file.dir, w.file.name, w.file.kind, w.file.tree))
                /\ UNCHANGED <<pending, awaiting>>
           ELSE /\ log' = Append(log, Event("start", w.file.dir, w.file.name, w.file.kind, w.file.tree))
                /\ pending' = pending \cup {w.file}
                /\ awaiting' = FALSE
    /\ frames' = advance(frames)
    /\ UNCHANGED <<pc, layout, target, dirs, files, walk, loopIdx, resolveVars, nameVars, commandVars,
                   generateVars>>

\* lines 205-219: a file entry is rendered or taken as it is; unless the hook
\* returned null its write starts, and the call waits for it
HandleFile ==
    /\ pc = "copy" /\ ~awaiting
    /\ frames # <<>> /\ top.rest # <<>> /\ ~Head(top.rest).isDirectory
    /\ LET w == written(dialect, [entry |-> Head(top.rest).item, kind |-> "base", tree |-> top.tree])
       IN  IF w.skip
           THEN /\ log' = Append(log, Event("skip", w.file.dir, w.file.name, w.file.kind, w.file.tree))
                /\ UNCHANGED <<pending, awaiting>>
           ELSE /\ log' = Append(log, Event("start", w.file.dir, w.file.name, w.file.kind, w.file.tree))
                /\ pending' = pending \cup {w.file}
                /\ awaiting' = TRUE
    /\ frames' = advance(frames)
    /\ UNCHANGED <<pc, layout, target, dirs, files, walk, loopIdx, resolveVars, nameVars, commandVars,
                   generateVars>>

\* lines 214-218: fs.ensureDir and fs.writeFile (or fs.copy) of a started write
\* complete; the call that waits for it goes on
WriteCompletes ==
    /\ pc = "copy"
    /\ \E f \in pending :
          /\ dirs' = dirs \cup Ancestors(f.dir)
          /\ files' = putFile(files, f)
          /\ pending' = pending \ {f}
          /\ log' = Append(log, Event("write", f.dir, f.name, f.kind, f.tree))
    /\ awaiting' = FALSE
    /\ UNCHANGED <<pc, frames, layout, target, walk, loopIdx, resolveVars, nameVars, commandVars,
                   generateVars>>

\* lines 203-204: a directory entry; copyTemplateDirectory is called for it
EnterDirectory ==
    /\ pc = "copy" /\ ~awaiting
    /\ frames # <<>> /\ top.rest # <<>> /\ Head(top.rest).isDirectory
    /\ LET d == Head(top.rest).path
       IN  /\ frames' = Append(frames, Frame(top.tree, d, readdir(treeEntries(layout, top.tree), d)))
           /\ log' = Append(log, Event("enter", d, NoName, "base", top.tree))
    /\ UNCHANGED <<pc, pending, awaiting, layout, target, dirs, files, walk, loopIdx, resolveVars,
                   nameVars, commandVars, generateVars>>

\* line 220-221: the loop of a call is over; the call returns, and the loop of
\* the call that awaited it moves on
ReturnFromDirectory ==
    /\ pc = "copy" /\ ~awaiting
    /\ frames # <<>> /\ top.rest = <<>>
    /\ frames' = IF Len(frames) = 1 THEN <<>> ELSE advance(SubSeq(frames, 1, Len(frames) - 1))
    /\ log' = Append(log, Event("leave", top.dir, NoName, "base", top.tree))
    /\ pc' = IF Len(frames) = 1 THEN "copied" ELSE pc
    /\ UNCHANGED <<pending, awaiting, layout, target, dirs, files, walk, loopIdx, resolveVars, nameVars,
                   commandVars, generateVars>>

NextCopy ==
    \/ HandleFile
    \/ WriteCompletes
    \/ EnterDirectory
    \/ ReturnFromDirectory

SpecCopy == InitCopy /\ [][NextCopy]_vars

----------------------------------------------------------------------------
(* SpecResolve: the resolver applied once, then to its own result *)

InitResolve ==
    /\ pc = "selected"
    /\ IdleCommand /\ IdleGenerate /\ IdleFs /\ IdleName
    /\ selected \in SeqsUpTo(FeatureKey, MaxSelected)
    /\ once = Idle
    /\ twice = Idle
    /\ missing = Idle

ResolveOnce ==
    /\ pc = "selected"
    /\ once' = resolveFeatureDependencies(selected)
    /\ pc' = "resolved"
    /\ UNCHANGED <<selected, twice, missing>>
    /\ UNCHANGED <<commandVars, generateVars, fsVars, nameVars, copyVars>>

CheckMissing ==
    /\ pc = "resolved"
    /\ once.thrown = None
    /\ missing' = missingDependencies(once.resolved)
    /\ pc' = "checked"
    /\ UNCHANGED <<selected, once, twice>>
    /\ UNCHANGED <<commandVars, generateVars, fsVars, nameVars, copyVars>>

ResolveTwice ==
    /\ pc = "checked"
    /\ twice' = resolveFeatureDependencies(once.resolved)
    /\ pc' = "resolvedTwice"
    /\ UNCHANGED <<selected, once, missing>>
    /\ UNCHANGED <<commandVars, generateVars, fsVars, nameVars, copyVars>>

NextResolve == ResolveOnce \/ CheckMissing \/ ResolveTwice

SpecResolve == InitResolve /\ [][NextResolve]_vars

----------------------------------------------------------------------------
(* Claims on the resolver *)

\* the keys a feature requires, read from the catalog
Requires(k) == Range(featureCatalog[CHOOSE i \in DOMAIN featureCatalog : featureCatalog[i].key = k].dependencies)

\* C1: resolving an already resolved list gives back the same ordered list:
\* resolve(resolve(F)) = resolve(F) for every list F of valid keys.
C1_Idempotent ==
    pc = "resolvedTwice" => twice.thrown = None /\ twice.resolved = once.resolved

C1_Witness ==
    /\ pc = "resolvedTwice"
    /\ selected = <<"userCrud", "clientPortal", "userCrud">>
    /\ once.resolved = <<"auth", "userCrud", "clientPortal">>
    /\ twice.resolved = <<"auth", "userCrud", "clientPortal">>

\* C2: every key required by a feature of resolve(F) is in resolve(F), so the
\* missing-dependency filter of promptForMissingOptions finds no feature.
C2_ClosureComplete ==
    /\ pc \in {"resolved", "checked", "resolvedTwice"} =>
          /\ once.thrown = None
          /\ \A k \in Range(once.resolved) : Requires(k) \subseteq Range(once.resolved)
    /\ pc \in {"checked", "resolvedTwice"} => missing = <<>>

C2_Witness ==
    /\ pc = "checked"
    /\ selected = <<"adminPortal">>
    /\ "auth" \in Range(once.resolved)
    /\ missing = <<>>

\* C3: in resolve(F) every feature stands after all the features it requires,
\* whatever the order of F.
C3_Topological ==
    pc \in {"resolved", "checked", "resolvedTwice"} =>
        \A i \in DOMAIN once.resolved :
            \A d \in Requires(once.resolved[i]) :
                \E j \in 1..(i - 1) : once.resolved[j] = d

C3_Witness ==
    /\ pc = "resolved"
    /\ selected = <<"userCrud", "auth">>
    /\ once.resolved = <<"auth", "userCrud">>

C3_WitnessAlone ==
    /\ pc = "resolved"
    /\ selected = <<"userCrud">>
    /\ once.resolved = <<"auth", "userCrud">>

----------------------------------------------------------------------------
(* Claims on the script map *)

MapperScripts == {"prisma:generate", "prisma:migrate", "prisma:deploy", "prisma:studio"}

ManifestScripts == {"db:migrate", "db:seed"}

\* C10: in both dialects the script map holds the four mapper scripts and the
\* two manifest-level scripts when 'prisma' is among the providers, and none of
\* the six when it is not.
C10_PrismaScripts ==
    pc = "contextBuilt" =>
        IF "prisma" \in Range(options.dataProviders)
        THEN MapperScripts \cup ManifestScripts \subseteq DOMAIN context.scripts
        ELSE (MapperScripts \cup ManifestScripts) \cap DOMAIN context.scripts = {}

----------------------------------------------------------------------------
(* Claims on a run of the generator *)

\* generate has been called: options holds its request
InGenerate == pc \notin {"prompt", "ensureSafe", "rejected"}

\* the messages of the Errors generate throws for a key outside its catalog
UnknownKeyMessages == {"Module inconnu", "Option de persistance inconnue", "Framework front inconnu"}

\* the positions of the log that hold a write of a file
Writes == {i \in DOMAIN log : log[i].op = "write"}

\* C4: generate called with dryRun false and a feature, provider or front-end key
\* outside its catalog fails without any change of the filesystem: the target
\* directory is not created.
C4_UnknownKeyLeavesNoTrace ==
    (pc = "failed" /\ ~options.dryRun /\ thrown.message \in UnknownKeyMessages) =>
        log = <<>> /\ dirs = {} /\ files = {}

\* C5: generate called with dryRun true changes nothing on the filesystem, in
\* both dialects, yet validates the keys and builds the context: it fails when a
\* key is unknown and returns with the context built otherwise.
C5_DryRunWritesNothing ==
    (InGenerate /\ options.dryRun) =>
        /\ log = <<>> /\ dirs = {} /\ files = {}
        /\ pc \in {"generate", "buildContext", "contextBuilt", "failed", "returned"}
        /\ pc = "failed" => validateKeys(options) # NoError /\ thrown = validateKeys(options)
        /\ pc = "returned" => validateKeys(options) = NoError /\ context = buildContext(options)

C5_Witness ==
    /\ pc = "returned"
    /\ options.dryRun
    /\ options.language = "javascript"
    /\ options.features = <<"auth", "userCrud">>
    /\ options.dataProviders = <<>>
    /\ target = "absent"
    /\ log = <<>>
    /\ "bcryptjs" \in Range(context.dependencies)

C5_WitnessUnknownKey ==
    /\ pc = "failed"
    /\ options.dryRun
    /\ thrown = [message |-> "Module inconnu", key |-> UnknownFeature, valid |-> <<>>]
    /\ target = "absent"

\* C6: in every generation no file of a base template tree is written after a
\* file of a feature template tree was written.
C6_BaseBeforeFeatures ==
    \A i \in Writes : \A j \in Writes :
        (log[i].kind = "feature" /\ log[j].kind = "base") => j < i

C7_WitnessRendered ==
    /\ pc = "returned"
    /\ options.language = "typescript"
    /\ options.features = <<"auth", "userCrud">>
    /\ \E i \in Writes : \E j \in Writes :
          i < j /\ log[i].tree = Tree("typescript", "auth") /\ log[j].tree = Tree("typescript", "userCrud")

\* C8: after a successful non-dry-run generation whose providers do not hold
\* 'prisma', neither <target>/prisma nor
\* <target>/src/infrastructure/persistence/prisma exists.
C8_NoMapperTreeWithoutPrisma ==
    (pc = "returned" /\ ~options.dryRun /\ ~includes(options.dataProviders, "prisma")) =>
        /\ ~pathExists(dirs, prismaDir)
        /\ ~pathExists(dirs, prismaSrcDir)
        /\ \A f \in files : ~IsUnder(f.dir, prismaDir) /\ ~IsUnder(f.dir, prismaSrcDir)

\* C9: when the providers hold 'prisma' the post-generation step removes nothing:
\* every file rendering wrote below <target>/prisma and
\* <target>/src/infrastructure/persistence/prisma is present when generate returns.
C9_MapperTreeKeptWithPrisma ==
    (InGenerate /\ includes(options.dataProviders, "prisma")) =>
        /\ \A i \in DOMAIN log : log[i].op # "remove"
        /\ pc = "returned" =>
               \A i \in Writes :
                   (IsUnder(log[i].dir, prismaDir) \/ IsUnder(log[i].dir, prismaSrcDir)) =>
                       \E f \in files : f.dir = log[i].dir /\ f.name = log[i].name

C9_Witness ==
    /\ pc = "returned"
    /\ options.language = "typescript"
    /\ options.dataProviders = <<"prisma">>
    /\ \E f \in files : f.dir = prismaDir /\ f.name = FileName("schema", "prisma")
    /\ \E f \in files : f.dir = prismaSrcDir /\ f.name = FileName("client", "ts")

----------------------------------------------------------------------------
(* Claims on runCreateCommand *)

\* C11: the front-end key of the request runCreateCommand hands to generate is
\* the one promptForMissingOptions returned; so a run whose front-end choice is
\* 'none' never fails with the unknown-front-end error of generate.
C11_FrontendKeyHandedOver ==
    (entry = "runCreateCommand" /\ InGenerate) =>
        /\ options.frontendFramework = answers.frontendFramework
        /\ answers.frontendFramework = "none" =>
               ~(pc = "failed" /\ thrown.message = "Framework front inconnu")

\* the target path is a file, or a directory that holds an entry: what
\* ensureSafeProjectDirectory refuses (no step of a run removes the entry)
UnsafeTarget == target = "file" \/ StrayFile \in files

\* C12: in runCreateCommand nothing is written before ensureSafeProjectDirectory
\* returned without error, and when the target path is a file or a directory
\* that holds an entry the run never reaches generate: it ends rejected with an
\* Error and zero writes, with dryRun true and with dryRun false.
C12_SafeBeforeWrites ==
    entry = "runCreateCommand" =>
        /\ pc \in {"prompt", "ensureSafe", "rejected"} => log = <<>> /\ dirs = {}
        /\ UnsafeTarget =>
               /\ pc \in {"prompt", "ensureSafe", "rejected"}
               /\ pc = "rejected" => thrown # NoError

C12_Witness ==
    /\ entry = "runCreateCommand"
    /\ pc = "rejected"
    /\ ~cli.dryRun
    /\ target = "directory"
    /\ StrayFile \in files
    /\ thrown.message = "n'est pas vide"
    /\ log = <<>>

C12_WitnessFile ==
    /\ entry = "runCreateCommand"
    /\ pc = "rejected"
    /\ cli.dryRun
    /\ target = "file"
    /\ thrown.message = "existe deja et n'est pas un dossier"
    /\ log = <<>>

\* C13: the packageManager of every request that reaches generate is 'npm',
\* 'pnpm' or 'yarn': a --package-manager value outside the three is rejected by
\* main before runCreateCommand, as an unknown --language value is.
C13_PackageManagerValidated ==
    /\ pc = "generate" => options.packageManager \in PackageManager /\ options.language \in Language
    /\ (entry = "main" /\ argv.packageManager \notin PackageManager \cup {Undefined}) =>
           pc \in {"main", "rejected"}

\* C14: when the rendering or the writing of a template entry fails during
\* copyTemplateDirectory, the files written before it stay in the destination,
\* the entry and those after it are not written, the Error leaves generate, and
\* nothing runs afterwards: neither the projection pass of the JavaScript
\* generator nor the prisma cleanup.
C14_FailureAbortsWalk ==
    [][ /\ pc # "failed"
        /\ (pc \in Walks /\ pc' = "failed") =>
               /\ thrown' # NoError
               /\ files' = files /\ log' = log
               /\ walk' = walk /\ walk # <<>>
               /\ \A i \in Writes : \E f \in files' : f.dir = log[i].dir /\ f.name = log[i].name ]_vars

C14_Witness ==
    /\ pc = "failed"
    /\ thrown = EntryFailed("fs.writeFile")
    /\ options.language = "typescript"
    /\ options.dataProviders = <<>>
    /\ Head(walk).entry.name = FileName("server", "ts")
    /\ Head(walk).kind = "base"
    /\ \E f \in files : f.dir = prismaDir /\ f.name = FileName("schema", "prisma")
    /\ ~ \E f \in files : f.name = FileName("server", "ts")

----------------------------------------------------------------------------
(* Claims on copyTemplateDirectory *)

\* the step handles the first entry of the walk to its end
EntryHandled == pc \in Walks /\ walk # <<>> /\ walk' = Tail(walk)

\* the files of fileSet elsewhere than at the path dir/name
Elsewhere(fileSet, dir, name) == {f \in fileSet : ~(f.dir = dir /\ f.name = name)}

\* the step writes one file, at dir/name, and nothing else
WritesOnly(dir, name) ==
    /\ Len(log') = Len(log) + 1
    /\ SubSeq(log', 1, Len(log)) = log
    /\ log'[Len(log')].op = "write" /\ log'[Len(log')].dir = dir /\ log'[Len(log')].name = name
    /\ Elsewhere(files', dir, name) = Elsewhere(files, dir, name)
    /\ Cardinality({f \in files' : f.dir = dir /\ f.name = name}) = 1

\* the file at dir/name after the step
FileAt(dir, name) == CHOOSE f \in files' : f.dir = dir /\ f.name = name

\* C15: in the JavaScript dialect a rendered (.ejs) template file with
\* destination name N gives no file when N ends in '.d.ts'; one file, in the same
\* directory, named N with the final '.ts' replaced by '.js' (and none named N)
\* when N ends in '.ts'; and otherwise one file named N with the rendered
\* content unchanged.
C15_JavaScriptTransform ==
    [][ (EntryHandled /\ dialect = "javascript" /\ Head(walk).entry.ejs) =>
           LET e == Head(walk).entry
           IN  IF e.name.ext = "d.ts" THEN files' = files /\ log' = log
               ELSE IF e.name.ext = "ts"
               THEN WritesOnly(e.dir, FileName(e.name.stem, "js"))
               ELSE /\ WritesOnly(e.dir, e.name)
                    /\ ~FileAt(e.dir, e.name).transpiled ]_vars

C15_Witness ==
    /\ pc = "returned"
    /\ options.language = "javascript"
    /\ ~options.dryRun
    /\ \E f \in files : f.dir = "src" /\ f.name = FileName("server", "js") /\ f.transpiled
    /\ \E f \in files : f.dir = "." /\ f.name = FileName("package", "json") /\ ~f.transpiled
    /\ \A f \in files : f.name.ext \notin {"ts", "d.ts", "d.js"}

----------------------------------------------------------------------------
(* Claims on formatPackageName *)

\* groups of [a-z0-9] joined by single '-', no '-' at either end, not empty
WellFormedPackageName(s) ==
    /\ s # <<>>
    /\ \A i \in DOMAIN s : s[i] \in SlugChar \cup {"-"}
    /\ s[1] # "-" /\ s[Len(s)] # "-"
    /\ \A i \in 1..(Len(s) - 1) : ~(s[i] = "-" /\ s[i + 1] = "-")

\* the name holds an ASCII letter or digit
HoldsAsciiAlnum(name) ==
    \E i \in DOMAIN name : name[i] \in Range(AsciiUpper) \cup Range(AsciiLower) \cup AsciiDigit

\* the positions of s that hold a character of Keep, in increasing order
PositionsIn(s, Keep) ==
    LET P == {i \in DOMAIN s : s[i] \in Keep}
    IN  [k \in 1..Cardinality(P) |-> CHOOSE i \in P : Cardinality({j \in P : j < i}) = k - 1]

\* s is the groups of [a-z0-9] of text, in order, joined by '-': the same
\* characters, with a '-' between two of them exactly where text has something
\* else between them
IsGroupsOf(s, text) ==
    LET p == PositionsIn(text, SlugChar)
        q == PositionsIn(s, SlugChar)
    IN  /\ WellFormedPackageName(s)
        /\ Len(p) = Len(q)
        /\ \A t \in DOMAIN p : s[q[t]] = text[p[t]]
        /\ \A t \in 1..(Len(p) - 1) : (q[t + 1] = q[t] + 2) <=> (p[t + 1] > p[t] + 1)

\* C17 as stated: formatPackageName returns 'template-api' or groups of [a-z0-9]
\* joined by single '-', and returns 'template-api' exactly when the name holds
\* no ASCII letter or digit.
C17_DefaultExactlyWithoutAlnum ==
    pc = "formatted" =>
        /\ packageName = DefaultPackageName \/ WellFormedPackageName(packageName)
        /\ packageName = DefaultPackageName <=> ~HoldsAsciiAlnum(projectName)

\* C17 amended: formatPackageName returns groups of [a-z0-9] joined by single
\* '-' with no '-' at either end; it is 'template-api' when the lower-cased name
\* holds no ASCII letter or digit, and otherwise the groups of ASCII letters
\* and digits of the lower-cased name, in order (which is 'template-api' too for
\* a name such as 'Template API').
C17_SlugOrDefault ==
    pc = "formatted" =>
        /\ WellFormedPackageName(packageName)
        /\ IF \E i \in DOMAIN projectName : lowerOf(projectName[i]) \in SlugChar
           THEN IsGroupsOf(packageName, toLowerCase(projectName))
           ELSE packageName = DefaultPackageName

C17_Witness ==
    /\ pc = "formatted"
    /\ projectName = <<" ", "M", "y", " ", " ", "A", "P", "I", "_", "2", " ">>
    /\ packageName = <<"m", "y", "-", "a", "p", "i", "-", "2">>

C17_WitnessDefault ==
    /\ pc = "formatted"
    /\ projectName = <<"-", SmallEAcute, " ">>
    /\ packageName = DefaultPackageName

----------------------------------------------------------------------------
(* Claims on the failures for unknown keys *)

\* the keys of the catalog the message of an unknown-key Error is about
CatalogKeysOf(message) ==
    CASE message \in {"Modules inconnus", "Unknown feature", "Module inconnu"} -> FeatureKey
      [] message \in {"Options de persistance inconnues", "Option de persistance inconnue"} -> DataProviderKey
      [] message = "Framework front inconnu" -> DOMAIN frontendFrameworkCatalogMap
      [] OTHER -> {}

\* C18: every Error raised for a feature, provider or front-end key outside its
\* catalog, by main, resolveFeatureDependencies, promptForMissingOptions or
\* generate, names the invalid key and lists the valid keys of the catalog.
C18_UnknownKeyErrorListsValid ==
    CatalogKeysOf(thrown.message) # {} =>
        /\ thrown.key # None
        /\ CatalogKeysOf(thrown.message) \subseteq Range(thrown.valid)

----------------------------------------------------------------------------
(* Claims on the packages and on the web scripts *)

\* C19: in both dialects and for every provider list the runtime packages hold
\* 'bcryptjs' and 'jsonwebtoken' when 'auth' is in the feature list handed to
\* buildDependencies and neither when it is not; with features ['auth'] and no
\* provider the script map holds dev, build, start, test, lint and format and
\* none of the mapper scripts.
C19_AuthPackages ==
    pc = "contextBuilt" =>
        /\ "bcryptjs" \in Range(context.dependencies) <=> "auth" \in Range(options.features)
        /\ "jsonwebtoken" \in Range(context.dependencies) <=> "auth" \in Range(options.features)
        /\ (options.features = <<"auth">> /\ options.dataProviders = <<>>) =>
               /\ {"dev", "build", "start", "test", "lint", "format"} \subseteq DOMAIN context.scripts
               /\ (MapperScripts \cup ManifestScripts) \cap DOMAIN context.scripts = {}

C19_Witness ==
    /\ pc = "contextBuilt"
    /\ options.language = "javascript"
    /\ options.features = <<"auth">>
    /\ options.dataProviders = <<>>
    /\ "jsonwebtoken" \in Range(context.dependencies)
    /\ "dev" \in DOMAIN context.scripts

C19_WitnessWithoutAuth ==
    /\ pc = "contextBuilt"
    /\ options.features = <<"userCrud">>
    /\ options.dataProviders = <<"prisma", "postgresql">>
    /\ "bcryptjs" \notin Range(context.dependencies)

\* the names of the scripts buildDependencies can add
DialectScripts ==
    {"dev", "build", "start", "test", "test:watch", "lint", "format", "api"}
        \cup MapperScripts \cup ManifestScripts

\* 'npm run S --prefix D', 'pnpm --dir D S', 'yarn --cwd D S'
WebCommand(packageManager, D, S) ==
    CASE packageManager = "npm"  -> "npm run " \o S \o " --prefix " \o D
      [] packageManager = "pnpm" -> "pnpm --dir " \o D \o " " \o S
      [] packageManager = "yarn" -> "yarn --cwd " \o D \o " " \o S

\* the scripts S of the web:S keys of a front-end pairing
WebScriptsOf(frontendFramework) ==
    CASE frontendFramework = "react-vite" -> {"dev", "build", "preview"}
      [] frontendFramework = "nextjs"     -> {"dev", "build", "start"}
      [] frontendFramework = "none"       -> {}

\* C20: the script map holds exactly web:dev, web:build, web:preview when the
\* front-end is 'react-vite', exactly web:dev, web:build, web:start when it is
\* 'nextjs' and no web:* key when it is 'none'; each command runs its script in
\* the application directory of the pairing, in the form of the package manager.
C20_WebScripts ==
    pc = "contextBuilt" =>
        LET web == WebScriptsOf(options.frontendFramework)
        IN  /\ DOMAIN context.scripts \ DialectScripts = {"web:" \o S : S \in web}
            /\ \A S \in web :
                   context.scripts["web:" \o S] =
                       WebCommand(options.packageManager,
                                  frontendFrameworkCatalogMap[options.frontendFramework].appDirectory, S)

C20_Witness ==
    /\ pc = "contextBuilt"
    /\ options.frontendFramework = "nextjs"
    /\ options.packageManager = "pnpm"
    /\ context.scripts["web:start"] = "pnpm --dir apps/web start"
    /\ "web:preview" \notin DOMAIN context.scripts

C20_WitnessNone ==
    /\ pc = "contextBuilt"
    /\ options.frontendFramework = "none"
    /\ DOMAIN context.scripts \subseteq DialectScripts

----------------------------------------------------------------------------
(* Claims on the package lists of a request of the prompt *)

\* no value stands twice in the list
NoRepeat(s) == \A i \in DOMAIN s : \A j \in DOMAIN s : s[i] = s[j] => i = j

\* C21: for every request promptForMissingOptions returns, whatever the
\* features and the providers of the user (repeats in the providers included),
\* the runtime package list and the development package list buildDependencies
\* builds for it hold no package name twice, in either dialect.
C21_NoDuplicatePackages ==
    (entry = "runCreateCommand" /\ pc \notin {"prompt", "rejected"}) =>
        \A language \in Language :
            LET built == buildDependencies(language, answers.features, answers.dataProviders)
            IN  NoRepeat(built.dependencies) /\ NoRepeat(built.devDependencies)

C21_Witness ==
    /\ entry = "runCreateCommand"
    /\ pc = "ensureSafe"
    /\ cli.dataProviders = <<"postgresql", "prisma", "postgresql">>
    /\ cli.features = <<"userCrud", "auth">>
    /\ answers.dataProviders = <<"postgresql", "prisma">>
    /\ "@types/pg" \in Range(buildDependencies("typescript", answers.features, answers.dataProviders).devDependencies)

----------------------------------------------------------------------------
(* Claims on the installation and the test run *)

\* the positions of shell where a child process failed
Failures == {i \in DOMAIN shell : shell[i].kind \in {"close", "error"} /\ ~resolves(shell[i])}

\* the positions of shell where the child process of the command starts
Spawns(command) ==
    {i \in DOMAIN shell : shell[i].kind = "spawn"
                           /\ shell[i].command = getPackageManagerCommand(answers.packageManager, command)}

\* C22: after a successful generation a failure of the install command or of
\* the test command (an exit code other than 0, or a spawn error) does not make
\* runCreateCommand fail: the error is caught and reported, and runCreateCommand
\* returns.
C22_InstallFailureNotFatal ==
    /\ pc = "failed" => shell = <<>>
    /\ Failures # {} =>
           /\ thrown = NoError
           /\ pc \in {"caught", "commandReturned"}
           /\ pc = "commandReturned" => shell[Len(shell)].kind = "reported"

C22_Witness ==
    /\ pc = "commandReturned"
    /\ answers.packageManager = "pnpm"
    /\ Len(shell) = 6
    /\ shell[5] = ShellEvent("close", "pnpm test", "1")
    /\ shell[6] = ShellEvent("reported", "pnpm test", None)
    /\ thrown = NoError

C22_WitnessSpawnError ==
    /\ pc = "commandReturned"
    /\ Len(shell) = 4
    /\ shell[3] = ShellEvent("error", "npm install", None)
    /\ shell[4].kind = "reported"

\* C23: the install command starts only after generate returned without error
\* and the user confirmed; the test command starts only right after the install
\* command exited with code 0, never while it runs nor after it failed; with
\* dryRun neither the confirmation nor a child process is started.
C23_InstallThenTest ==
    /\ cli.dryRun => shell = <<>>
    /\ shell # <<>> =>
           /\ pc \notin {"prompt", "ensureSafe", "rejected", "generate", "failed"}
           /\ shell[1].kind = "confirm"
    /\ \A i \in DOMAIN shell :
           shell[i].kind = "spawn" => shell[1] = ShellEvent("confirm", None, "yes")
    /\ \A i \in Spawns("install") : i = 2
    /\ \A i \in Spawns("test") :
           /\ i = 4
           /\ shell[3] = ShellEvent("close", getPackageManagerCommand(answers.packageManager, "install"), "0")

C23_Witness ==
    /\ pc = "testing"
    /\ ~cli.dryRun
    /\ shell = << ShellEvent("confirm", None, "yes"),
                  ShellEvent("spawn", "yarn install", None),
                  ShellEvent("close", "yarn install", "0"),
                  ShellEvent("spawn", "yarn test", None) >>

C23_WitnessDryRun ==
    /\ pc = "commandReturned"
    /\ cli.dryRun
    /\ shell = <<>>

----------------------------------------------------------------------------
(* Claims on the order of the template walk *)

\* the entry of the log is about the directory d or about something below it
Within(event, d) == d \in Ancestors(event.dir)

\* C24: during a template walk at most one file write is in flight: the write
\* of an entry completes before the next entry is rendered or written, and the
\* whole walk of a subdirectory completes before its next sibling is handled.
C24_SerialWalk ==
    /\ Cardinality(pending) <= 1
    /\ \A i \in DOMAIN log :
           log[i].op = "start" =>
               IF i = Len(log)
               THEN \E f \in pending : f.dir = log[i].dir /\ f.name = log[i].name
               ELSE log[i + 1] = [log[i] EXCEPT !.op = "write"]
    /\ \A i \in DOMAIN log :
           log[i].op = "leave" =>
               /\ \A f \in pending : ~Within(f, log[i].dir)
               /\ \A j \in DOMAIN log : j > i => ~Within(log[j], log[i].dir)
    /\ \A i \in DOMAIN log :
           log[i].op = "enter" =>
               \A j \in DOMAIN log :
                   (j > i /\ ~Within(log[j], log[i].dir)) =>
                       \E k \in (i + 1)..(j - 1) : log[k].op = "leave" /\ log[k].dir = log[i].dir

C24_Witness ==
    /\ pc = "copy"
    /\ dialect = "typescript"
    /\ Len(frames) = 2 /\ top.dir = "src"
    /\ \E f \in pending : f.dir = "src" /\ f.name = FileName("server", "ts")
    /\ \E i \in DOMAIN log : log[i].op = "leave" /\ log[i].dir = "src/infrastructure"
    /\ \E f \in files : f.dir = "src/infrastructure/persistence/prisma" /\ f.name = FileName("client", "ts")

C24_WitnessDone ==
    /\ pc = "copied"
    /\ dialect = "javascript"
    /\ pending = {}
    /\ \E f \in files : f.dir = "src/infrastructure/persistence/prisma" /\ f.name = FileName("client", "js")
    /\ \E f \in files : f.dir = "src" /\ f.name = FileName("server", "js")

----------------------------------------------------------------------------
(* Claims on the hook of the walk *)

\* C25: for a rendered file the three outcomes of transformRenderedFile are
\* honoured: null writes nothing for the entry and the walk goes on; a result
\* with a fileName writes the returned content under that name in the directory
\* of the original destination and nothing at the original name; a result
\* without fileName writes the returned content at the original destination.
\* The hook is not called for a file that is copied as it is.
C25_HookOutcomes ==
    [][ EntryHandled =>
           LET e == Head(walk).entry
               t == transformRenderedFile(dialect, e.name)
           IN  IF ~e.ejs
               THEN WritesOnly(e.dir, e.name) /\ ~FileAt(e.dir, e.name).transpiled
               ELSE IF t.skip
               THEN files' = files /\ log' = log /\ pc' \in Walks \cup {afterWalk(pc)}
               ELSE /\ WritesOnly(e.dir, t.name)
                    /\ FileAt(e.dir, t.name).transpiled = t.transpiled
                    /\ t.name # e.name =>
                           {f \in files' : f.dir = e.dir /\ f.name = e.name}
                               = {f \in files : f.dir = e.dir /\ f.name = e.name} ]_vars

C25_Witness ==
    /\ pc = "returned"
    /\ options.language = "javascript"
    /\ ~options.dryRun
    /\ \E f \in files : f.dir = "src" /\ f.name = FileName("constants", "ts") /\ ~f.transpiled
    /\ \E f \in files : f.dir = "src" /\ f.name = FileName("server", "js") /\ f.transpiled
    /\ \E f \in files : f.dir = "docs" /\ f.name = FileName("api", "md")
    /\ \A f \in files : f.name.stem # "env"

\* C30: after a successful JavaScript generation no file written by the
\* generator has a name ending in '.ts', whether its template was rendered or
\* copied as it is.
C30_NoTypeScriptFileInJavaScript ==
    (pc = "returned" /\ options.language = "javascript" /\ ~options.dryRun) =>
        \A f \in files : f.kind # "user" => f.name.ext \notin {"ts", "d.ts"}

----------------------------------------------------------------------------
(* Claims on the flags of the template context *)

\* the flags both generators attach under the same name
SharedFlags ==
    {"hasAuth", "hasUserCrud", "hasClientPortal", "hasAdminPortal", "hasDatabaseProviders", "hasPrisma",
     "hasObjectStorage"}

\* the keys of the provider catalog whose kind is 'database'
DatabaseKeys ==
    {dataProviderCatalog[i].key : i \in {j \in DOMAIN dataProviderCatalog : dataProviderCatalog[j].kind = "database"}}

\* C26: for the same request both dialects attach the same values for hasAuth,
\* hasUserCrud, hasClientPortal, hasAdminPortal, hasDatabaseProviders, hasPrisma
\* and hasObjectStorage, and hasDatabaseProviders is true exactly when a provider
\* of the request has the catalog kind 'database'.
C26_SameFlagsInBothDialects ==
    pc = "contextBuilt" =>
        /\ \A language \in Language : \A flag \in SharedFlags :
               getAdditionalContext([options EXCEPT !.language = language])[flag] = context.flags[flag]
        /\ context.flags.hasDatabaseProviders = (\E p \in Range(options.dataProviders) : p \in DatabaseKeys)

----------------------------------------------------------------------------
(* Claims on the keys of the resolved list *)

\* the keys of K with everything they require, directly or not
RECURSIVE RequiredClosure(_)
RequiredClosure(K) ==
    LET next == K \cup UNION {Requires(k) : k \in K}
    IN  IF next = K THEN K ELSE RequiredClosure(next)

\* C27: resolve(F) holds no key twice, holds every key of F, and holds no key
\* other than the keys of F and the keys they require, directly or transitively.
C27_ExactClosure ==
    pc \in {"resolved", "checked", "resolvedTwice"} =>
        /\ once.thrown = None
        /\ NoRepeat(once.resolved)
        /\ Range(selected) \subseteq Range(once.resolved)
        /\ Range(once.resolved) \subseteq RequiredClosure(Range(selected))

C27_Witness ==
    /\ pc = "resolved"
    /\ selected = <<"adminPortal", "userCrud", "adminPortal">>
    /\ once.resolved = <<"auth", "adminPortal", "userCrud">>

\* C28: the set of keys of resolve(F) depends only on the set of keys of F, not
\* on their order nor on repeats.
C28_OrderIndependentKeys ==
    pc \in {"resolved", "checked", "resolvedTwice"} =>
        \A other \in SeqsUpTo(FeatureKey, MaxSelected) :
            Range(other) = Range(selected) =>
                /\ resolveFeatureDependencies(other).thrown = None
                /\ Range(resolveFeatureDependencies(other).resolved) = Range(once.resolved)

C28_Witness ==
    /\ pc = "resolved"
    /\ selected = <<"userCrud", "clientPortal", "userCrud">>
    /\ once.resolved = <<"auth", "userCrud", "clientPortal">>
    /\ resolveFeatureDependencies(<<"clientPortal", "userCrud">>).resolved = <<"auth", "clientPortal", "userCrud">>

----------------------------------------------------------------------------
(* Claims on the features of the request *)

\* C29: every request that reaches generate through the command line holds at
\* least one feature: a --features value that yields no key (only commas or
\* blanks) does not let the run go on with an empty list.
C29_AtLeastOneFeature ==
    (entry = "main" /\ pc = "generate") => options.features # <<>>

====
